---- MODULE Spec2Model ----
(***************************************************************************)
(* Verification model of PBI-insights: the DAX reference normalizer, the   *)
(* field extractors, Page used-field reformatting and the Report's         *)
(* measure dependency graph / usage-state propagation.                     *)
(*                                                                         *)
(* Python str values are TLA+ strings (TLC evaluates Len, SubSeq and \o on  *)
(* strings), so every string function below works on characters exactly   *)
(* as the source does.                                                     *)
(***************************************************************************)
EXTENDS Integers, Sequences, FiniteSets, TLC

VARIABLES
    query,        \* argument of _strip_dax_functions
    dax_pc,       \* "idle" | "call" | "returned"
    raw_fields,   \* value returned by _strip_dax_functions
    data_object,  \* argument of a field extractor
    ext_fn,       \* the extractor that was called
    ext_pc,       \* "idle" | "call" | "returned"
    found_fields, \* value returned by the extractor
    section_data,     \* argument of Page.__init__: one entry of the layout's sections
    page_pc,          \* position inside Page.__init__, "raised" after an exception
    page_filters,     \* Page.filters
    page_visuals,     \* Page.visuals, a list of Visual objects
    page_used_fields, \* Page.used_fields
    page_log,         \* the fields _reformat_used_fields printed a warning for
    layout_data,   \* argument of Report.__init__: the decoded Layout file
    pc,            \* position inside Report.__init__
    pages,         \* Report.pages, a list of Page objects
    measures,      \* Report.measures: full name -> Measure object
    measure_order, \* the keys of Report.measures in insertion order
    cursor,        \* index of the current iteration of the running list loop
    pending,       \* elements of the set being iterated that are not yet visited
    stack,         \* active calls of _propagate_indirect_usage, innermost last
    rec_calls,     \* number of recursive calls of _propagate_indirect_usage so far
    exc,           \* the exception in flight, "none" when there is none
    driver,         \* the loop over the report folders that is running
    report_folders, \* the entries of the directory of unzipped reports, in iterdir order
    batch_pc,       \* position inside the driver and inside from_unzipped_report
    folder_i,       \* index of the current iteration of the loop over report_folders
    layout_read,    \* whether from_unzipped_report has opened the Layout file
    all_reps,       \* all_reps, the list of the Reports built so far
    export_pc,         \* position inside export_measure_report / export_page_report
    all_measures_data, \* all_measures_data, the rows of the measure report so far
    all_pages_data,    \* all_pages_data, the rows of the page report so far
    other_report,   \* the second Report under construction, whose step is not running
    running,        \* 0 when one Report is built; else which of the two runs: 1 or 2
    previous_fields, \* what the call before the last call of the extractor returned
    repeats,         \* how many times the extractor was called again on data_object
    analyze_pc,      \* position inside analyze_measures_from_reports
    report_i,        \* index of the current iteration of its loop over reports
    descriptions,    \* descriptions, what process_all_measures returned last
    gather_pc,       \* position inside process_all_measures
    measure_list,    \* measures, the argument of process_all_measures
    batch_size,      \* batch_size
    batches,         \* batches
    contents,        \* response.content of the call of each batch, once it is there
    completion,      \* the batches in the order their calls completed
    results,         \* results, what asyncio.gather returned
    merged_results,  \* merged_results
    result_i         \* index of the current iteration of the loop over results

dax_vars == <<query, dax_pc, raw_fields>>

ext_vars == <<data_object, ext_fn, ext_pc, found_fields>>

page_vars ==
    <<section_data, page_pc, page_filters, page_visuals, page_used_fields, page_log>>

report_vars ==
    <<layout_data, pc, pages, measures, measure_order, cursor, pending, stack, rec_calls,
      exc>>

batch_vars == <<driver, report_folders, batch_pc, folder_i, layout_read, all_reps>>

\* state of the code that uses Report: the exporters, and a caller that builds
\* two Reports at a time
pair_vars == <<other_report, running>>

repeat_vars == <<previous_fields, repeats>>

analyze_vars == <<analyze_pc, report_i, descriptions>>

gather_vars ==
    <<gather_pc, measure_list, batch_size, batches, contents, completion, results,
      merged_results, result_i>>

client_vars ==
    <<export_pc, all_measures_data, all_pages_data, pair_vars, repeat_vars, analyze_vars,
      gather_vars>>

vars ==
    <<query, dax_pc, raw_fields, data_object, ext_fn, ext_pc, found_fields,
      section_data, page_pc, page_filters, page_visuals, page_used_fields, page_log,
      layout_data, pc, pages, measures, measure_order, cursor, pending, stack, rec_calls,
      exc, driver, report_folders, batch_pc, folder_i, layout_read, all_reps,
      export_pc, all_measures_data, all_pages_data, other_report, running,
      previous_fields, repeats, analyze_pc, report_i, descriptions, gather_pc,
      measure_list, batch_size, batches, contents, completion, results, merged_results,
      result_i>>

----------------------------------------------------------------------------
(* Bounds *)

\* longest query, counted in pieces of DaxPieces, that DaxInit enumerates
MaxPieces == 4

\* longest Select / selects list of a data-transform input
MaxEntries == 2

\* most measure -> name references in the expressions of one layout
MaxEdges == 3

\* most (page, field) uses in the sections of one layout
MaxUses == 2

\* most entries of the directory of unzipped reports
MaxFolders == 2

\* deepest nesting of _propagate_indirect_usage calls the interpreter allows before
\* it raises RecursionError (the interpreter's limit, scaled to these layouts)
RecursionLimit == 6

----------------------------------------------------------------------------
(* Python str primitives *)

Char(s, i) == SubSeq(s, i, i)

WordCharString == "abcdefghijklmnopqrstuvwxyzABCDEFGHIJKLMNOPQRSTUVWXYZ0123456789_"

\* the characters the regex class \w matches (ASCII part)
WordChars == {Char(WordCharString, i) : i \in 1..Len(WordCharString)}

IsWordChar(c) == c \in WordChars

\* 1-based positions of character c in s
Positions(s, c) == {i \in 1..Len(s) : Char(s, i) = c}

Min(S) == CHOOSE x \in S : \A y \in S : x <= y

Max(S) == CHOOSE x \in S : \A y \in S : x >= y

\* s[a:b] of Python for 0 <= a, 0 <= b (0-based, end exclusive)
Slice(s, a, b) == SubSeq(s, a + 1, IF b <= Len(s) THEN b ELSE Len(s))

\* s[a:-1] of Python
SliceToLast(s, a) == SubSeq(s, a + 1, Len(s) - 1)

\* str.split(sep) for a one-character separator: the list of pieces
RECURSIVE Split(_, _)
Split(s, sep) ==
    IF Positions(s, sep) = {}
    THEN <<s>>
    ELSE LET p == Min(Positions(s, sep))
         IN  <<SubSeq(s, 1, p - 1)>> \o Split(SubSeq(s, p + 1, Len(s)), sep)

\* str.split(sep, 1): at most one split, at the first separator
Split1(s, sep) ==
    IF Positions(s, sep) = {}
    THEN <<s>>
    ELSE LET p == Min(Positions(s, sep))
         IN  <<SubSeq(s, 1, p - 1), SubSeq(s, p + 1, Len(s))>>

----------------------------------------------------------------------------
(* _strip_dax_functions *)

wrapper_functions ==
    {"Avg", "Count", "CountNonNull", "Max", "Median", "Min", "StandardDeviation", "Sum"}

rec_wrapper_functions == {"Divide", "ScopedEval"}

\* first position of the maximal run of word characters that ends at e
RunStart(s, e) ==
    Min({j \in 1..e : \A k \in j..e : IsWordChar(Char(s, k))})

\* positions of the "(" that end a match of the pattern \b(\w+)\(
WrapperParens(s) ==
    {i \in 2..Len(s) : Char(s, i) = "(" /\ IsWordChar(Char(s, i - 1))}

\* found_wrapper with the matches taken right to left
found_wrapper_reversed(s) ==
    LET P == WrapperParens(s)
        Nth(k) == CHOOSE i \in P : Cardinality({j \in P : j > i}) = k - 1
    IN  [k \in 1..Cardinality(P) |-> SubSeq(s, RunStart(s, Nth(k) - 1), Nth(k) - 1)]

\* re.findall(r"\b(\w+)\(", s): the captured names, left to right
found_wrapper(s) ==
    LET P == WrapperParens(s)
        Nth(k) == CHOOSE i \in P : Cardinality({j \in P : j < i}) = k - 1
    IN  [k \in 1..Cardinality(P) |-> SubSeq(s, RunStart(s, Nth(k) - 1), Nth(k) - 1)]

\* StripSimpleWrapper returning the empty raw_fields when no ")" is found
StripSimpleWrapperOrNothing(s) ==
    IF Positions(s, ")") = {}
    THEN {}
    ELSE {Slice(s, Min(Positions(s, "(")), Max(Positions(s, ")")) - 1)}

\* StripSimpleWrapper with index(")") in place of rindex(")")
StripSimpleWrapperFirstClose(s) ==
    IF Positions(s, ")") = {}
    THEN {s}
    ELSE {Slice(s, Min(Positions(s, "(")), Min(Positions(s, ")")) - 1)}

\* the simple wrapper branch: between the first "(" and the last ")"
StripSimpleWrapper(s) ==
    IF Positions(s, ")") = {}
    THEN {s}
    ELSE {Slice(s, Min(Positions(s, "(")), Max(Positions(s, ")")) - 1)}

\* the sub-queries of the recursive wrapper branch
SubQueries(s, name) == Split(SliceToLast(s, Len(name)), ",")

RECURSIVE _strip_dax_functions(_)
_strip_dax_functions(s) ==
    LET fw == found_wrapper(s)
    IN  IF Len(fw) > 0
        THEN IF fw[1] \in rec_wrapper_functions
             THEN LET subs == SubQueries(s, fw[1])
                  IN  UNION {_strip_dax_functions(subs[i]) : i \in 1..Len(subs)}
             ELSE IF fw[1] \in wrapper_functions
                  THEN StripSimpleWrapper(s)
                  ELSE {s}
        ELSE {s}

----------------------------------------------------------------------------
(* JSON-like values: the decoded layout document *)

\* Python None
JNull == [t |-> "null"]

\* a Python str
JStr(s) == [t |-> "str", v |-> s]

\* a Python list, as a sequence of values
JArr(items) == [t |-> "arr", v |-> items]

\* a Python dict, as a function from its keys (strings) to values
JObj(f) == [t |-> "obj", v |-> f]

\* a Python int
JNum(n) == [t |-> "num", v |-> n]

\* a non-empty Python str holding the JSON encoding of a value
JText(x) == [t |-> "text", v |-> x]

\* json.loads of such a str
json_loads(s) == s.v

EmptyDict == [k \in {} |-> JNull]

IsDict(x) == x.t = "obj"

IsList(x) == x.t = "arr"

\* key in d
HasKey(d, k) == k \in DOMAIN d.v

\* d.get(k, default)
Get(d, k, default) == IF HasKey(d, k) THEN d.v[k] ELSE default

\* truth value of a Python value in an `if`
Truthy(x) ==
    CASE x.t = "null" -> FALSE
      [] x.t = "str"  -> x.v # ""
      [] x.t = "arr"  -> Len(x.v) > 0
      [] x.t = "obj"  -> DOMAIN x.v # {}
      [] x.t = "num"  -> x.v # 0
      [] OTHER        -> TRUE

\* None as an element of a set of field names: a value no str of the model equals
PyNone == "<None>"

\* a str or None as an element of a Set[str]
SetElem(x) == IF x.t = "str" THEN x.v ELSE PyNone

----------------------------------------------------------------------------
(* The parts of the state a specification does not exercise *)

DaxIdle ==
    /\ query = ""
    /\ dax_pc = "idle"
    /\ raw_fields = {}

ExtIdle ==
    /\ data_object = JNull
    /\ ext_fn = "none"
    /\ ext_pc = "idle"
    /\ found_fields = {}

PageIdle ==
    /\ section_data = JNull
    /\ page_pc = "idle"
    /\ page_filters = JArr(<<>>)
    /\ page_visuals = <<>>
    /\ page_used_fields = {}
    /\ page_log = {}

ReportIdle ==
    /\ layout_data = JNull
    /\ pc = "idle"
    /\ pages = <<>>
    /\ measures = EmptyDict
    /\ measure_order = <<>>
    /\ cursor = 0
    /\ pending = {}
    /\ stack = <<>>
    /\ rec_calls = 0
    /\ exc = "none"

BatchIdle ==
    /\ driver = "none"
    /\ report_folders = <<>>
    /\ batch_pc = "idle"
    /\ folder_i = 0
    /\ layout_read = FALSE
    /\ all_reps = <<>>

\* the fields of a Report object and the position of its construction
ReportState(layout, at, pgs, ms, order, cur, pend, stk, calls, e) ==
    [layout_data |-> layout, pc |-> at, pages |-> pgs, measures |-> ms,
     measure_order |-> order, cursor |-> cur, pending |-> pend, stack |-> stk,
     rec_calls |-> calls, exc |-> e]

\* a Report whose __init__ was called with layout and has not run a step yet
NewReport(layout, at) ==
    ReportState(layout, at, <<>>, EmptyDict, <<>>, 0, {}, <<>>, 0, "none")

GatherIdle ==
    /\ gather_pc = "idle"
    /\ measure_list = <<>>
    /\ batch_size = 0
    /\ batches = <<>>
    /\ contents = <<>>
    /\ completion = <<>>
    /\ results = <<>>
    /\ merged_results = EmptyDict
    /\ result_i = 0

ClientIdle ==
    /\ export_pc = "idle"
    /\ all_measures_data = <<>>
    /\ all_pages_data = <<>>
    /\ other_report = NewReport(JNull, "idle")
    /\ running = 0
    /\ previous_fields = {}
    /\ repeats = 0
    /\ analyze_pc = "idle"
    /\ report_i = 0
    /\ descriptions = EmptyDict
    /\ GatherIdle

----------------------------------------------------------------------------
(* Field extractors *)

_selects_fields(selects) ==
    {SetElem(Get(selects.v[i], "queryName", JNull)) : i \in 1..Len(selects.v)}

_queryMetadata_fields(queryMetadata) ==
    LET Select == queryMetadata.v["Select"]
    IN  {SetElem(Get(Select.v[i], "Name", JStr(""))) : i \in 1..Len(Select.v)}

_projections_fields(projections) ==
    UNION {UNION {_strip_dax_functions(projections.v[description].v[i].v["queryRef"].v) :
                     i \in 1..Len(projections.v[description].v)} :
              description \in DOMAIN projections.v}

\* LeafField without the test of prop
LeafFieldAnyProperty(d) ==
    IF HasKey(d, "Property") /\ HasKey(d, "Expression")
    THEN LET prop == d.v["Property"]
             expr == Get(d, "Expression", JObj(EmptyDict))
             source_ref == Get(expr, "SourceRef", JObj(EmptyDict))
             entity == Get(source_ref, "Entity", JNull)
         IN  IF Truthy(entity)
             THEN {entity.v \o "." \o prop.v}
             ELSE {}
    ELSE {}

\* the leaf pattern {"Property": prop, "Expression": {"SourceRef": {"Entity": entity}}}
LeafField(d) ==
    IF HasKey(d, "Property") /\ HasKey(d, "Expression")
    THEN LET prop == d.v["Property"]
             expr == Get(d, "Expression", JObj(EmptyDict))
             source_ref == Get(expr, "SourceRef", JObj(EmptyDict))
             entity == Get(source_ref, "Entity", JNull)
         IN  IF Truthy(entity) /\ Truthy(prop)
             THEN {entity.v \o "." \o prop.v}
             ELSE {}
    ELSE {}

\* the shape rules of lines 21-39 tested with "expression" before "projections"
ShapeRuleExpressionFirst(x) ==
    IF HasKey(x, "expression")
    THEN "expression"
    ELSE IF HasKey(x, "projections")
    THEN "projections"
    ELSE IF /\ HasKey(x, "queryMetadata")
            /\ x.v["queryMetadata"] # JNull
            /\ HasKey(x.v["queryMetadata"], "Select")
    THEN "queryMetadata"
    ELSE IF /\ HasKey(x, "queryMetadata")
            /\ x.v["queryMetadata"] = JNull
            /\ HasKey(x, "selects")
    THEN "selects"
    ELSE "generic"

\* the branch of the if / elif chain of lines 21-39 a dict takes; "generic" when
\* no condition of the chain holds
ShapeRule(x) ==
    IF HasKey(x, "projections")
    THEN "projections"
    ELSE IF HasKey(x, "expression")
    THEN "expression"
    ELSE IF /\ HasKey(x, "queryMetadata")
            /\ x.v["queryMetadata"] # JNull
            /\ HasKey(x.v["queryMetadata"], "Select")
    THEN "queryMetadata"
    ELSE IF /\ HasKey(x, "queryMetadata")
            /\ x.v["queryMetadata"] = JNull
            /\ HasKey(x, "selects")
    THEN "selects"
    ELSE "generic"

RECURSIVE _recursive_find_fields(_)
_recursive_find_fields(x) ==
    IF IsDict(x)
    THEN CASE ShapeRule(x) = "projections" ->
                 _projections_fields(x.v["projections"])
           [] ShapeRule(x) = "expression" ->
                 _recursive_find_fields(x.v["expression"])
           [] ShapeRule(x) = "queryMetadata" ->
                 _queryMetadata_fields(x.v["queryMetadata"])
           [] ShapeRule(x) = "selects" ->
                 _selects_fields(x.v["selects"])
           [] OTHER ->
                 LeafField(x)
                 \cup UNION {_recursive_find_fields(x.v[k]) : k \in DOMAIN x.v}
    ELSE IF IsList(x)
    THEN UNION {_recursive_find_fields(x.v[i]) : i \in 1..Len(x.v)}
    ELSE {}

----------------------------------------------------------------------------
(* Inputs of the extractors *)

SeqsUpTo(S, n) == UNION {[1..k -> S] : k \in 0..n}

\* the optional key k of an object: absent, or present with one of the values
Optional(k, values) == {EmptyDict} \cup {k :> x : x \in values}

\* names carried by Select / selects entries; "x" holds no "."
EntryNames == {"Sales.Revenue", "A.B.C", "x"}

SelectEntries ==
    {JObj([Name |-> JStr(f)]) : f \in EntryNames}
    \cup {JObj([Restatement |-> JStr("Revenue")])}

SelectsEntries ==
    {JObj([queryName |-> JStr(f)]) : f \in EntryNames}
    \cup {JObj([displayName |-> JStr("Revenue")])}

\* arguments of _queryMetadata_fields
QueryMetadataInputs == {JObj([Select |-> JArr(L)]) : L \in SeqsUpTo(SelectEntries, MaxEntries)}

\* arguments of _selects_fields
SelectsInputs == {JArr(L) : L \in SeqsUpTo(SelectsEntries, MaxEntries)}

\* decoded dataTransforms objects
DataTransformInputs ==
    {JObj([queryMetadata |-> qm]) : qm \in QueryMetadataInputs}
    \cup {JObj([queryMetadata |-> JNull, selects |-> s]) : s \in SelectsInputs}
    \cup {JObj([queryMetadata |-> JObj(EmptyDict), selects |-> s]) : s \in SelectsInputs}
    \cup {JObj([queryMetadata |-> JNull])}

ProjectionQueries == {"Sales.Revenue", "Sum(Sales.Revenue)", "Divide(Sales.Revenue,Orders.ID)", "x"}

\* arguments of _projections_fields
ProjectionsInputs ==
    {JObj([Values |-> JArr(<<JObj([queryRef |-> JStr(q)])>>)]) : q \in ProjectionQueries}
    \cup {JObj([Category |-> JArr(<<JObj([queryRef |-> JStr("Orders.ID")])>>),
                Values |-> JArr(<<JObj([queryRef |-> JStr(q)]),
                                  JObj([queryRef |-> JStr("Min(A.B.C)")])>>)]) :
             q \in ProjectionQueries}

\* the singleVisual object of a visual's config
SingleVisualInputs ==
    {JObj([visualType |-> JStr("card"), projections |-> p]) : p \in ProjectionsInputs}
    \cup {JObj([visualType |-> JStr("card")])}

ColumnRef(entity, prop) ==
    JObj([Column |-> JObj([Expression |-> JObj([SourceRef |-> JObj([Entity |-> JStr(entity)])]),
                           Property |-> JStr(prop)])])

\* decoded filter lists
FiltersInputs ==
    {JArr(<<JObj([name |-> JStr("Filter1"), expression |-> ColumnRef(e, p)])>>) :
        e \in {"Sales", ""}, p \in {"Revenue", "Total"}}
    \cup {JArr(<<JObj([name |-> JStr("Filter1"), filter |-> ColumnRef("Orders", "ID")])>>)}
    \cup {JArr(<<>>)}

\* objects carrying any combination of the keys the shape rules test, and a
\* key ("filter") that only the generic rule visits
ShapeInputs ==
    {JObj(p @@ e @@ q @@ s @@ f) :
        p \in Optional("projections",
                 {JObj([Values |-> JArr(<<JObj([queryRef |-> JStr("Sum(Sales.Revenue)")])>>)])}),
        e \in Optional("expression", {ColumnRef("Orders", "ID")}),
        q \in Optional("queryMetadata",
                 {JNull, JObj(EmptyDict),
                  JObj([Select |-> JArr(<<JObj([Name |-> JStr("A.B.C")])>>)])}),
        s \in Optional("selects", {JArr(<<JObj([queryName |-> JStr("x.y")])>>)}),
        f \in Optional("filter", {ColumnRef("T", "c")})}

\* the Expression values of a candidate leaf
LeafExpressions ==
    {JObj(EmptyDict),
     JObj([SourceRef |-> JObj(EmptyDict)]),
     JObj([SourceRef |-> JObj([Source |-> JStr("s")])]),
     JObj([SourceRef |-> JObj([Entity |-> JStr("")])]),
     JObj([SourceRef |-> JObj([Entity |-> JStr("Sales")])])}

\* values nested under a further key of a candidate leaf
LeafChildren ==
    {JStr("Orders.ID"), JNull, JNum(5),
     ColumnRef("Orders", "ID"),
     JArr(<<ColumnRef("Orders", "ID"), JStr("A.b"), ColumnRef("T", "c")>>)}

\* objects no shape rule matches, arrays of them, and scalars
GenericInputs ==
    {JObj(p @@ e @@ c) :
        p \in Optional("Property", {JStr(""), JStr("Revenue")}),
        e \in Optional("Expression", LeafExpressions),
        c \in Optional("Child", LeafChildren)}
    \cup {JArr(<<JObj([Property |-> JStr("Revenue"), Expression |-> e]),
                 ColumnRef("Orders", "ID")>>) : e \in LeafExpressions}
    \cup {JStr("Sales.Revenue"), JNum(5), JNull}

ExtractInputs ==
    QueryMetadataInputs \cup SelectsInputs \cup DataTransformInputs
    \cup ProjectionsInputs \cup SingleVisualInputs \cup FiltersInputs
    \cup ShapeInputs \cup GenericInputs

ExtInit ==
    /\ data_object \in ExtractInputs
    /\ ext_fn = "none"
    /\ ext_pc = "call"
    /\ found_fields = {}
    /\ DaxIdle
    /\ PageIdle
    /\ ReportIdle
    /\ BatchIdle
    /\ ClientIdle

\* Return for an extractor that empties the object it was given
ReturnConsuming(fn, result) ==
    /\ ext_pc = "call"
    /\ ext_fn' = fn
    /\ found_fields' = result
    /\ ext_pc' = "returned"
    /\ data_object' = JNull
    /\ UNCHANGED <<dax_vars, page_vars, report_vars, batch_vars, client_vars>>

\* a call of an extractor returns result; no statement of the extractors
\* assigns to a key or an item of the argument
Return(fn, result) ==
    /\ ext_pc = "call"
    /\ ext_fn' = fn
    /\ found_fields' = result
    /\ ext_pc' = "returned"
    /\ UNCHANGED <<data_object, dax_vars, page_vars, report_vars, batch_vars,
                   client_vars>>

CallRecursiveFindFields ==
    Return("_recursive_find_fields", _recursive_find_fields(data_object))

CallQueryMetadataFields ==
    /\ data_object \in QueryMetadataInputs
    /\ Return("_queryMetadata_fields", _queryMetadata_fields(data_object))

CallSelectsFields ==
    /\ data_object \in SelectsInputs
    /\ Return("_selects_fields", _selects_fields(data_object))

CallProjectionsFields ==
    /\ data_object \in ProjectionsInputs
    /\ Return("_projections_fields", _projections_fields(data_object))

ExtNext ==
    \/ CallRecursiveFindFields
    \/ CallQueryMetadataFields
    \/ CallSelectsFields
    \/ CallProjectionsFields

ExtSpec == ExtInit /\ [][ExtNext]_vars

\* how often RepeatSpec calls _recursive_find_fields again
MaxRepeats == 2

\* most names in a dict returned by process_all_measures
MaxDescriptions == 2

\* longest list of measures given to process_all_measures
MaxMeasures == 3

\* largest batch_size given to process_all_measures
MaxBatchSize == 2

\* most names in the JSON object of one response
MaxKeys == 1

\* _recursive_find_fields is called again with the object of the call before:
\* found_fields starts as a new set() in every call (line 17)
CallRecursiveFindFieldsAgain ==
    /\ ext_pc = "returned"
    /\ ext_fn = "_recursive_find_fields"
    /\ repeats < MaxRepeats
    /\ repeats' = repeats + 1
    /\ previous_fields' = found_fields
    /\ found_fields' = _recursive_find_fields(data_object)
    /\ UNCHANGED <<data_object, ext_fn, ext_pc, dax_vars, page_vars, report_vars,
                   batch_vars, export_pc, all_measures_data, all_pages_data, pair_vars,
                   analyze_vars, gather_vars>>

RepeatNext ==
    \/ CallRecursiveFindFieldsAgain
    \/ ExtNext

RepeatSpec == ExtInit /\ [][RepeatNext]_vars

----------------------------------------------------------------------------
(* Visual and Page construction *)

\* LoadsOr giving None, not the default, for an absent or empty text
LoadsOrNone(s, default) == IF Truthy(s) THEN json_loads(s) ELSE JNull

\* json.loads(s) if s else default
LoadsOr(s, default) == IF Truthy(s) THEN json_loads(s) ELSE default

\* Visual.__init__: the Visual built from one visual container
Visual(container) ==
    LET config == LoadsOr(Get(container, "config", JNull), JObj(EmptyDict))
        filters == LoadsOr(Get(container, "filters", JNull), JArr(<<>>))
        data_transforms == LoadsOr(Get(container, "dataTransforms", JNull), JObj(EmptyDict))
        singleVisual == Get(config, "singleVisual", JObj(EmptyDict))
    IN  [config |-> config,
         filters |-> filters,
         data_transforms |-> data_transforms,
         singleVisual |-> singleVisual,
         used_fields |->
            (IF Truthy(filters) THEN _recursive_find_fields(filters) ELSE {})
            \cup (IF Truthy(data_transforms)
                  THEN _recursive_find_fields(data_transforms) ELSE {})
            \cup (IF Truthy(singleVisual)
                  THEN _recursive_find_fields(singleVisual) ELSE {})]

\* Page.filters: json.loads(filters_str) if filters_str else []
LoadedFilters(section) == LoadsOr(Get(section, "filters", JNull), JArr(<<>>))

\* Page._load_visuals: one Visual per visual container, in document order
LoadedVisuals(section) ==
    LET visual_containers == Get(section, "visualContainers", JArr(<<>>))
    IN  [i \in 1..Len(visual_containers.v) |-> Visual(visual_containers.v[i])]

\* FoundUsedFields without the page's own filters
FoundUsedFieldsOfVisualsOnly(visuals, filters) ==
    UNION {visuals[i].used_fields : i \in 1..Len(visuals)}

\* Page._find_used_fields: the visuals' used_fields and the page's own filters
FoundUsedFields(visuals, filters) ==
    UNION {visuals[i].used_fields : i \in 1..Len(visuals)}
    \cup (IF Truthy(filters) THEN _recursive_find_fields(filters) ELSE {})

\* Page.__init__ up to _load_visuals: the filters are decoded, every Visual is built
LoadVisuals ==
    /\ page_pc = "init"
    /\ page_filters' = LoadedFilters(section_data)
    /\ page_visuals' = LoadedVisuals(section_data)
    /\ page_pc' = "visuals_loaded"
    /\ UNCHANGED <<section_data, page_used_fields, page_log, dax_vars, ext_vars, report_vars,
                   batch_vars,
                   client_vars>>

\* Page._find_used_fields
FindUsedFields ==
    /\ page_pc = "visuals_loaded"
    /\ page_used_fields' = FoundUsedFields(page_visuals, page_filters)
    /\ page_pc' = "fields_found"
    /\ UNCHANGED <<section_data, page_filters, page_visuals, page_log, dax_vars, ext_vars,
                   report_vars, batch_vars,
                   client_vars>>

\* Reformat splitting at the last "." in place of the first
ReformatAtLastDot(field) ==
    IF Positions(field, ".") = {}
    THEN {}
    ELSE LET p == Max(Positions(field, "."))
         IN  {SubSeq(field, 1, p - 1) \o "[" \o SubSeq(field, p + 1, Len(field)) \o "]"}

\* one entry of the loop of _reformat_used_fields: parts[0] "[" parts[1] "]"
Reformat(field) ==
    LET parts == Split1(field, ".")
    IN  IF Len(parts) = 2 THEN {parts[1] \o "[" \o parts[2] \o "]"} ELSE {}

\* the entries the loop prints a warning for
Unformatted(fields) == {f \in fields : Len(Split1(f, ".")) # 2}

\* the set _reformat_used_fields assigns to used_fields when the loop completes
Reformatted(fields) == UNION {Reformat(f) : f \in fields}

\* Page._reformat_used_fields. The set is visited in an arbitrary order; None has
\* no split method, so the loop raises AttributeError when it reaches None, after
\* the warnings of the entries visited before it, and used_fields is not replaced.
ReformatUsedFields ==
    /\ page_pc = "fields_found"
    /\ IF PyNone \in page_used_fields
       THEN /\ page_pc' = "raised"
            /\ page_log' \in SUBSET Unformatted(page_used_fields \ {PyNone})
            /\ UNCHANGED page_used_fields
       ELSE /\ page_pc' = "constructed"
            /\ page_used_fields' = Reformatted(page_used_fields)
            /\ page_log' = Unformatted(page_used_fields)
    /\ UNCHANGED <<section_data, page_filters, page_visuals, dax_vars, ext_vars, report_vars,
                   batch_vars,
                   client_vars>>

----------------------------------------------------------------------------
(* Inputs of Page construction *)

ContainerConfigs ==
    Optional("config",
        {JStr(""), JText(JObj([name |-> JStr("v1")]))}
        \cup {JText(JObj([name |-> JStr("v1"), singleVisual |-> sv])) :
                 sv \in {JObj([visualType |-> JStr("card"),
                               projections |-> JObj([Values |-> JArr(<<JObj([queryRef |-> JStr(q)])>>)])]) :
                            q \in {"Sum(Sales.Revenue)", "x"}}})

ContainerFilters ==
    Optional("filters",
        {JStr(""), JText(JArr(<<JObj([name |-> JStr("Filter1"),
                                       expression |-> ColumnRef("Sales", "Total")])>>))})

ContainerDataTransforms ==
    Optional("dataTransforms", {JStr("")} \cup {JText(d) : d \in DataTransformInputs})

VisualContainers ==
    {JObj(c @@ f @@ d) :
        c \in ContainerConfigs, f \in ContainerFilters, d \in ContainerDataTransforms}

\* a second container of a page
OtherContainers ==
    {JObj("dataTransforms" :> JText(JObj([queryMetadata |-> JNull, selects |-> JArr(<<e>>)]))) :
        e \in SelectsEntries}

SectionFilters ==
    Optional("filters",
        {JStr(""), JText(JArr(<<JObj([name |-> JStr("Filter2"),
                                       expression |-> ColumnRef("Orders", "ID")])>>))})

SectionData ==
    {JObj([name |-> JStr("ReportSection1"), displayName |-> JStr("Page 1")] @@ f @@ v) :
        f \in SectionFilters,
        v \in Optional("visualContainers",
                 {JArr(<<>>)}
                 \cup {JArr(<<c>>) : c \in VisualContainers}
                 \cup {JArr(<<c, o>>) : c \in {JObj(EmptyDict)}, o \in OtherContainers})}

PageInit ==
    /\ section_data \in SectionData
    /\ page_pc = "init"
    /\ page_filters = JArr(<<>>)
    /\ page_visuals = <<>>
    /\ page_used_fields = {}
    /\ page_log = {}
    /\ DaxIdle
    /\ ExtIdle
    /\ ReportIdle
    /\ BatchIdle
    /\ ClientIdle

PageNext ==
    \/ LoadVisuals
    \/ FindUsedFields
    \/ ReformatUsedFields

PageSpec == PageInit /\ [][PageNext]_vars

----------------------------------------------------------------------------
(* Measure *)

DIRECTLY_USED == "Directly Used"

INDIRECTLY_USED == "Indirectly Used"

UNREFERENCED == "Unreferenced"

DANGLING == "Dangling"

UsageState == {DIRECTLY_USED, INDIRECTLY_USED, UNREFERENCED, DANGLING}

\* Measure with the state of a measure a page uses
MeasureStartingUsed(name, entity_name, expression) ==
    [name |-> name,
     entity_name |-> entity_name,
     expression |-> expression,
     author |-> PyNone,
     description |-> PyNone,
     last_change |-> PyNone,
     usage_state |-> DIRECTLY_USED,
     referenced_measures |-> {},
     referenced_by_measures |-> {},
     used_in_pages |-> {1}]

\* Measure.__init__. Measure objects are equal, and hash alike, when entity and
\* name agree, so a set of Measure objects of one Report is the set of their
\* full names; a set of Page objects (hashed by (ordinal, name), compared by
\* identity) is the set of their positions in Report.pages.
Measure(name, entity_name, expression) ==
    [name |-> name,
     entity_name |-> entity_name,
     expression |-> expression,
     author |-> PyNone,
     description |-> PyNone,
     last_change |-> PyNone,
     usage_state |-> UNREFERENCED,
     referenced_measures |-> {},
     referenced_by_measures |-> {},
     used_in_pages |-> {}]

\* Measure.full_name
full_name(m) == m.entity_name \o "[" \o m.name \o "]"

----------------------------------------------------------------------------
(* Report._load_measures *)

\* [a-zA-Z0-9_ '"]
RefHeadChars == WordChars \cup {" ", "'", "\""}

\* [a-zA-Z0-9_ &] (the Greek ranges of the pattern occur in no expression here)
RefNameChars == WordChars \cup {" ", "&"}

\* last position of the longest run of characters of C that starts at p
\* (p - 1 when the character at p is not in C)
RECURSIVE RunEnd(_, _, _)
RunEnd(s, p, C) ==
    IF p <= Len(s) /\ Char(s, p) \in C THEN RunEnd(s, p + 1, C) ELSE p - 1

\* position of the "]" closing the match of the reference pattern that starts at
\* p, 0 when none starts there. Both repetitions are greedy and neither "[" nor
\* "]" is in their classes, so only the longest runs can match.
RefMatchEnd(s, p) ==
    LET q == RunEnd(s, p, RefHeadChars)
        r == RunEnd(s, q + 2, RefNameChars)
    IN  IF q >= p /\ q + 1 <= Len(s) /\ Char(s, q + 1) = "["
           /\ r + 1 <= Len(s) /\ Char(s, r + 1) = "]"
        THEN r + 1
        ELSE 0

\* re.findall of the reference pattern in s, searching from position p on: the
\* leftmost match, then the matches after its end
RECURSIVE FindAllRefs(_, _)
FindAllRefs(s, p) ==
    IF p > Len(s)
    THEN <<>>
    ELSE LET e == RefMatchEnd(s, p)
         IN  IF e > 0
             THEN <<SubSeq(s, p, e)>> \o FindAllRefs(s, e + 1)
             ELSE FindAllRefs(s, p + 1)

\* str.strip() (blanks are the only whitespace of the expressions here)
RECURSIVE Strip(_)
Strip(s) ==
    IF Len(s) > 0 /\ Char(s, 1) = " " THEN Strip(SubSeq(s, 2, Len(s)))
    ELSE IF Len(s) > 0 /\ Char(s, Len(s)) = " " THEN Strip(SubSeq(s, 1, Len(s) - 1))
    ELSE s

\* the references found in the expression text
ExpressionReferences(expression) ==
    LET found == FindAllRefs(expression, 1)
    IN  {Strip(found[i]) : i \in 1..Len(found)}

\* the names of measure["references"]["measures"], when the record carries them
StructuredReferences(measure) ==
    IF HasKey(measure, "references") /\ HasKey(measure.v["references"], "measures")
    THEN LET refs == measure.v["references"].v["measures"].v
         IN  {refs[i].v["entity"].v \o "[" \o refs[i].v["name"].v \o "]" :
                 i \in 1..Len(refs)}
    ELSE {}

\* the Measure built from one measure record of an entity
NewMeasure(entity_name, measure) ==
    [Measure(measure.v["name"].v, entity_name, measure.v["expression"].v)
        EXCEPT !.referenced_measures =
            ExpressionReferences(measure.v["expression"].v)
            \cup StructuredReferences(measure)]

\* InsertMeasure leaving a key that is already there as it is
InsertMeasureKeepingFirst(acc, m) ==
    [measures |-> acc.measures @@ (full_name(m) :> m),
     order |-> IF full_name(m) \in DOMAIN acc.measures
               THEN acc.order
               ELSE Append(acc.order, full_name(m))]

\* self.measures[new_measure.full_name] = new_measure
InsertMeasure(acc, m) ==
    [measures |-> (full_name(m) :> m) @@ acc.measures,
     order |-> IF full_name(m) \in DOMAIN acc.measures
               THEN acc.order
               ELSE Append(acc.order, full_name(m))]

\* the inner loop: the measures of one entity from the i-th on
RECURSIVE LoadEntityMeasures(_, _, _, _)
LoadEntityMeasures(entity_name, all_measures, i, acc) ==
    IF i > Len(all_measures)
    THEN acc
    ELSE LoadEntityMeasures(entity_name, all_measures, i + 1,
                            InsertMeasure(acc, NewMeasure(entity_name, all_measures[i])))

\* the outer loop: the entities from the i-th on
RECURSIVE LoadEntities(_, _, _)
LoadEntities(all_entities, i, acc) ==
    IF i > Len(all_entities)
    THEN acc
    ELSE LET entity == all_entities[i]
             entity_name == Get(entity, "name", JStr("Unknown")).v
             all_measures == Get(entity, "measures", JArr(<<>>)).v
         IN  LoadEntities(all_entities, i + 1,
                          LoadEntityMeasures(entity_name, all_measures, 1, acc))

\* Report._load_measures on the layout: the mapping and its insertion order
LoadedMeasures(layout) ==
    LET config == LoadsOr(Get(layout, "config", JNull), JObj(EmptyDict))
        modelExtension == Get(config, "modelExtensions", JArr(<<>>))
        empty == [measures |-> EmptyDict, order |-> <<>>]
    IN  IF ~Truthy(modelExtension)
        THEN empty
        ELSE LoadEntities(modelExtension.v[1].v["entities"].v, 1, empty)

----------------------------------------------------------------------------
(* Report.__init__ *)

\* Page.__init__ inside Report._load_pages: the Page object, or the exception
Page(section) ==
    LET raw == FoundUsedFields(LoadedVisuals(section), LoadedFilters(section))
    IN  [raised |-> PyNone \in raw,
         name |-> Get(section, "displayName", JStr("Untitled Page")).v,
         ordinal |-> Get(section, "ordinal", JNull),
         used_fields |-> Reformatted(raw \ {PyNone}),
         used_measures |-> {}]

\* where control is when the classification loop reaches index i
AtClassify(i, order) ==
    IF i <= Len(order)
    THEN [pc |-> "classify", cursor |-> i]
    ELSE [pc |-> "done", cursor |-> 0]

\* where control is when the propagation loop reaches index i with no call active
AtPropagate(i, order) ==
    IF i <= Len(order)
    THEN [pc |-> "propagate", cursor |-> i]
    ELSE AtClassify(1, order)

\* AtUsage with the page loop ending one page early
AtUsageBeforeLastPage(i, pgs, order) ==
    IF i < Len(pgs)
    THEN [pc |-> "resolve_usage_dependencies", cursor |-> i]
    ELSE AtPropagate(1, order)

\* where control is when the page loop of _resolve_usage_dependencies reaches page i
AtUsage(i, pgs, order) ==
    IF i <= Len(pgs)
    THEN [pc |-> "resolve_usage_dependencies", cursor |-> i]
    ELSE AtPropagate(1, order)

\* Report._load_pages; an exception of a Page constructor ends the construction
LoadPages ==
    /\ pc = "load_pages"
    /\ LET page_sections == Get(layout_data, "sections", JArr(<<>>)).v
           built == [i \in 1..Len(page_sections) |-> Page(page_sections[i])]
       IN  IF \E i \in 1..Len(built) : built[i].raised
           THEN pc' = "raised" /\ exc' = "AttributeError" /\ UNCHANGED pages
           ELSE pc' = "load_measures" /\ pages' = built /\ UNCHANGED exc
    /\ UNCHANGED <<layout_data, measures, measure_order, cursor, pending, stack, rec_calls,
                   dax_vars, ext_vars, page_vars, batch_vars,
                   client_vars>>

\* a subscript of _load_measures (lines 106, 113, 114) names a key its dict lacks
MalformedMeasures(layout) ==
    LET config == LoadsOr(Get(layout, "config", JNull), JObj(EmptyDict))
        modelExtension == Get(config, "modelExtensions", JArr(<<>>))
    IN  /\ Truthy(modelExtension)
        /\ \/ ~HasKey(modelExtension.v[1], "entities")
           \/ LET all_entities == modelExtension.v[1].v["entities"].v
              IN  \E i \in 1..Len(all_entities) :
                     LET all_measures == Get(all_entities[i], "measures", JArr(<<>>)).v
                     IN  \E j \in 1..Len(all_measures) :
                            \/ ~HasKey(all_measures[j], "name")
                            \/ ~HasKey(all_measures[j], "expression")

\* Report._load_measures; a KeyError ends the construction, and the measures
\* stored before it are lost with the Report object
LoadMeasures ==
    /\ pc = "load_measures"
    /\ IF MalformedMeasures(layout_data)
       THEN /\ pc' = "raised"
            /\ exc' = "KeyError"
            /\ UNCHANGED <<measures, measure_order>>
       ELSE /\ LET loaded == LoadedMeasures(layout_data)
               IN  /\ measures' = loaded.measures
                   /\ measure_order' = loaded.order
            /\ pc' = "resolve_measure_dependencies"
            /\ UNCHANGED exc
    /\ UNCHANGED <<layout_data, pages, cursor, pending, stack, rec_calls,
                   dax_vars, ext_vars, page_vars, batch_vars,
                   client_vars>>

\* ReferencedBy with the edge turned round: the measures that k references
ReferencedByReversed(ms, k) == {x \in DOMAIN ms : x \in ms[k].referenced_measures}

\* the referenced_by_measures the two loops of _resolve_measure_dependencies build
\* for the measure with key k: every measure one of whose referenced names is k
ReferencedBy(ms, k) == {x \in DOMAIN ms : k \in ms[x].referenced_measures}

\* Report._resolve_measure_dependencies
ResolveMeasureDependencies ==
    /\ pc = "resolve_measure_dependencies"
    /\ measures' = [k \in DOMAIN measures |->
                       [measures[k] EXCEPT !.referenced_by_measures =
                           measures[k].referenced_by_measures \cup ReferencedBy(measures, k)]]
    /\ LET next == AtUsage(1, pages, measure_order)
       IN  /\ pc' = next.pc
           /\ cursor' = next.cursor
           /\ pending' = IF next.pc = "resolve_usage_dependencies"
                         THEN pages[next.cursor].used_fields ELSE {}
    /\ UNCHANGED <<layout_data, pages, measure_order, stack, rec_calls,
                   exc, dax_vars, ext_vars, page_vars, batch_vars,
                   client_vars>>

\* one iteration of the inner loop of _resolve_usage_dependencies
ResolveUsageField ==
    /\ pc = "resolve_usage_dependencies"
    /\ \E field_name \in pending :
          /\ pending' = pending \ {field_name}
          /\ IF field_name \in DOMAIN measures
             THEN /\ pages' = [pages EXCEPT ![cursor].used_measures = @ \cup {field_name}]
                  /\ measures' = [measures EXCEPT
                                     ![field_name].used_in_pages = @ \cup {cursor},
                                     ![field_name].usage_state = DIRECTLY_USED]
             ELSE UNCHANGED <<pages, measures>>
    /\ UNCHANGED <<layout_data, pc, measure_order, cursor, stack, rec_calls,
                   exc, dax_vars, ext_vars, page_vars, batch_vars,
                   client_vars>>

\* the inner loop is exhausted: the next page, or the end of the page loop
ResolveUsageNextPage ==
    /\ pc = "resolve_usage_dependencies"
    /\ pending = {}
    /\ LET next == AtUsage(cursor + 1, pages, measure_order)
       IN  /\ pc' = next.pc
           /\ cursor' = next.cursor
           /\ pending' = IF next.pc = "resolve_usage_dependencies"
                         THEN pages[next.cursor].used_fields ELSE {}
    /\ UNCHANGED <<layout_data, pages, measures, measure_order, stack, rec_calls,
                   exc, dax_vars, ext_vars, page_vars, batch_vars,
                   client_vars>>

\* Frame with the recursive call left out: only a directly used measure's
\* references are walked
FrameWithoutRecursion(key) ==
    [measure |-> key,
     pending |-> IF measures[key].usage_state = DIRECTLY_USED
                 THEN measures[key].referenced_measures ELSE {}]

\* a call _propagate_indirect_usage(measure): its loop over referenced_measures
Frame(key) == [measure |-> key, pending |-> measures[key].referenced_measures]

\* the guard testing "not yet INDIRECTLY_USED" in place of "UNREFERENCED"
IsNotYetIndirect(m) == m.usage_state # INDIRECTLY_USED

\* the guard dropped: every resolved reference is followed
IsAnyState(m) == m.usage_state \in UsageState

\* the guard of line 202
IsUnreferenced(m) == m.usage_state = UNREFERENCED

\* one iteration of the first loop of _resolve_measure_usage_states
PropagateRoot ==
    /\ pc = "propagate"
    /\ stack = <<>>
    /\ IF measures[measure_order[cursor]].usage_state = DIRECTLY_USED
       THEN /\ stack' = <<Frame(measure_order[cursor])>>
            /\ cursor' = cursor + 1
            /\ UNCHANGED pc
       ELSE /\ pc' = AtPropagate(cursor + 1, measure_order).pc
            /\ cursor' = AtPropagate(cursor + 1, measure_order).cursor
            /\ UNCHANGED stack
    /\ UNCHANGED <<layout_data, pages, measures, measure_order, pending, rec_calls,
                   exc, dax_vars, ext_vars, page_vars, batch_vars,
                   client_vars>>

\* one iteration of the loop of the innermost call of _propagate_indirect_usage
PropagateVisit ==
    /\ pc = "propagate"
    /\ stack # <<>>
    /\ \E referenced_name \in stack[Len(stack)].pending :
          LET rest == [stack EXCEPT ![Len(stack)].pending = @ \ {referenced_name}]
          IN  IF /\ referenced_name \in DOMAIN measures
                 /\ IsUnreferenced(measures[referenced_name])
              THEN /\ measures' = [measures EXCEPT
                                      ![referenced_name].usage_state = INDIRECTLY_USED]
                   /\ rec_calls' = rec_calls + 1
                   /\ IF Len(stack) < RecursionLimit
                      THEN /\ stack' = Append(rest, Frame(referenced_name))
                           /\ UNCHANGED <<pc, exc>>
                      ELSE /\ pc' = "recursion_error"
                           /\ exc' = "RecursionError"
                           /\ UNCHANGED stack
              ELSE /\ stack' = rest
                   /\ UNCHANGED <<measures, rec_calls, pc, exc>>
    /\ UNCHANGED <<layout_data, pages, measure_order, cursor, pending,
                   dax_vars, ext_vars, page_vars, batch_vars,
                   client_vars>>

\* the innermost call returns; the outermost returns to the first loop
PropagateReturn ==
    /\ pc = "propagate"
    /\ stack # <<>>
    /\ stack[Len(stack)].pending = {}
    /\ stack' = SubSeq(stack, 1, Len(stack) - 1)
    /\ IF Len(stack) = 1
       THEN /\ pc' = AtPropagate(cursor, measure_order).pc
            /\ cursor' = AtPropagate(cursor, measure_order).cursor
       ELSE UNCHANGED <<pc, cursor>>
    /\ UNCHANGED <<layout_data, pages, measures, measure_order, pending, rec_calls,
                   exc, dax_vars, ext_vars, page_vars, batch_vars,
                   client_vars>>

\* Classified without the test of referenced_by_measures
ClassifiedIgnoringReferences(m) ==
    IF m.usage_state = UNREFERENCED THEN DANGLING ELSE m.usage_state

\* Classified testing "not DIRECTLY_USED" in place of "UNREFERENCED"
ClassifiedUnlessDirect(m) ==
    IF m.usage_state # DIRECTLY_USED /\ m.referenced_by_measures # {}
    THEN DANGLING
    ELSE m.usage_state

\* Classified with the classification pass left out
ClassifiedUnchanged(m) == m.usage_state

\* the state the second loop of _resolve_measure_usage_states leaves m in
Classified(m) ==
    IF m.usage_state = UNREFERENCED /\ m.referenced_by_measures # {}
    THEN DANGLING
    ELSE m.usage_state

\* one iteration of the second loop of _resolve_measure_usage_states
ClassifyMeasure ==
    /\ pc = "classify"
    /\ measures' = [measures EXCEPT ![measure_order[cursor]].usage_state =
                       Classified(measures[measure_order[cursor]])]
    /\ pc' = AtClassify(cursor + 1, measure_order).pc
    /\ cursor' = AtClassify(cursor + 1, measure_order).cursor
    /\ UNCHANGED <<layout_data, pages, measure_order, pending, stack, rec_calls,
                   exc, dax_vars, ext_vars, page_vars, batch_vars,
                   client_vars>>

----------------------------------------------------------------------------
(* Inputs of Report construction *)

\* the measures of the layout, all of entity "M", in document order
MeasureNames == <<"a", "b", "c">>

\* names a reference or a page may carry; M[z] is no measure of the layout
ReferenceNames == <<"a", "b", "c", "z">>

Range(seq) == {seq[i] : i \in 1..Len(seq)}

SubsetsUpTo(S, n) == {X \in SUBSET S : Cardinality(X) <= n}

\* the concatenation of the strings of a sequence
RECURSIVE Concat(_)
Concat(seq) == IF seq = <<>> THEN "" ELSE Head(seq) \o Concat(Tail(seq))

\* an expression that references M[n] for exactly the names n of targets
ExpressionOf(targets) ==
    Concat([i \in 1..Len(ReferenceNames) |->
              IF ReferenceNames[i] \in targets
              THEN "M[" \o ReferenceNames[i] \o "] + "
              ELSE ""])
    \o "1"

\* the config of a layout whose measure src references n for every <<src, n>> of edges
ConfigOf(edges) ==
    JText(JObj([modelExtensions |-> JArr(<<JObj([
        name |-> JStr("extension"),
        entities |-> JArr(<<JObj([
            name |-> JStr("M"),
            measures |-> JArr([i \in 1..Len(MeasureNames) |->
                JObj([name |-> JStr(MeasureNames[i]),
                      expression |->
                         JStr(ExpressionOf({n \in Range(ReferenceNames) :
                                               <<MeasureNames[i], n>> \in edges}))])])])>>)])>>)]))

\* the section of page i: its filters name the measure field M.n for every
\* <<i, n>> of uses, and page 1 also filters on the column Sales.Revenue
SectionOf(i, uses) ==
    LET names == SelectSeq(MeasureNames, LAMBDA n : <<i, n>> \in uses)
        columns == IF i = 1 THEN <<ColumnRef("Sales", "Revenue")>> ELSE <<>>
        fields == [k \in 1..Len(names) |-> ColumnRef("M", names[k])] \o columns
        filters == JArr([k \in 1..Len(fields) |->
                            JObj([name |-> JStr("Filter"), expression |-> fields[k]])])
    IN  JObj([name |-> JStr("ReportSection"),
              displayName |-> JStr(IF i = 1 THEN "Page 1" ELSE "Page 2"),
              ordinal |-> JNum(i - 1)]
             @@ (IF fields = <<>> THEN EmptyDict ELSE "filters" :> JText(filters)))

LayoutOf(edges, uses) ==
    JObj([id |-> JNum(0),
          config |-> ConfigOf(edges),
          sections |-> JArr(<<SectionOf(1, uses), SectionOf(2, uses)>>)])

\* layouts whose two sections carry the same displayName and ordinal and both
\* filter on the measure field M.a
TwinLayouts ==
    {JObj([id |-> JNum(0),
           config |-> ConfigOf(edges),
           sections |-> JArr(<<SectionOf(1, {<<1, "a">>}), SectionOf(1, {<<1, "a">>})>>)]) :
        edges \in {{}, {<<"b", "a">>}}}

\* entity and measure names of the layouts with projections; a measure name may
\* hold a ".", a blank, a parenthesis or the name of a wrapper function
ProjectionEntities == {"Sales", "Fact Sales"}

ProjectionNames == {"Total", "Total.Net", "Total (Net)", "Sum(x)"}

\* expression texts of the projected measure: a column aggregate without comment
\* block, a reference to a measure, the empty text
ProjectionExpressions == {"SUM(Sales.Revenue)", "Sales[Total] + 1", ""}

\* the queryRef a visual carries for the field entity.name: bare, inside a simple
\* wrapper, or the queryRef of another field
QueryRefsOf(entity, name) ==
    {entity \o "." \o name,
     "Sum(" \o entity \o "." \o name \o ")",
     "Min(" \o entity \o "." \o name \o ")",
     "Sum(Sales.Revenue)",
     entity \o ".Other"}

\* a section whose only visual projects queryRef q; refs = {} gives a section
\* without visual containers
ProjectionSection(i, refs) ==
    JObj([name |-> JStr("ReportSection"),
          displayName |-> JStr(IF i = 1 THEN "Page 1" ELSE "Page 2"),
          ordinal |-> JNum(i - 1)]
         @@ (IF refs = {}
             THEN EmptyDict
             ELSE "visualContainers" :>
                    JArr(<<JObj([config |-> JText(JObj([
                        name |-> JStr("v1"),
                        singleVisual |-> JObj([
                            visualType |-> JStr("card"),
                            projections |-> JObj([Values |->
                                JArr(<<JObj([queryRef |-> JStr(CHOOSE q \in refs : TRUE)])>>)])])]))])>>)))

\* the layout with the one measure entity[name] and the visual on page p
ProjectionLayoutOf(entity, name, expression, q, p) ==
    JObj([id |-> JNum(0),
          config |-> JText(JObj([modelExtensions |-> JArr(<<JObj([
              name |-> JStr("extension"),
              entities |-> JArr(<<JObj([
                  name |-> JStr(entity),
                  measures |-> JArr(<<JObj([name |-> JStr(name),
                                            expression |-> JStr(expression)])>>)])>>)])>>)])),
          sections |-> JArr(<<ProjectionSection(1, IF p = 1 THEN {q} ELSE {}),
                              ProjectionSection(2, IF p = 2 THEN {q} ELSE {})>>)])

ProjectionLayouts ==
    UNION {{ProjectionLayoutOf(entity, name, expression, q, p) :
               q \in QueryRefsOf(entity, name), p \in {1, 2}} :
           entity \in ProjectionEntities,
           name \in ProjectionNames,
           expression \in ProjectionExpressions}

\* sections with absent or empty optional fields: no filters, config or visual
\* containers; empty texts and a container without any field; containers with
\* one field each
SparseSections ==
    <<JObj([name |-> JStr("ReportSection"), displayName |-> JStr("Page 1")]),
      JObj([name |-> JStr("ReportSection"), displayName |-> JStr("Page 2"),
            config |-> JStr(""), filters |-> JStr(""),
            visualContainers |->
                JArr(<<JObj(EmptyDict),
                       JObj([config |-> JStr(""), filters |-> JStr(""),
                             dataTransforms |-> JStr("")])>>)]),
      JObj([name |-> JStr("ReportSection"), displayName |-> JStr("Page 3"),
            visualContainers |->
                JArr(<<JObj([config |-> JText(JObj([name |-> JStr("v1")]))]),
                       JObj([filters |->
                                JText(JArr(<<JObj([name |-> JStr("Filter"),
                                                   expression |-> ColumnRef("M", "a")])>>))])>>)])>>

\* layouts with absent or empty optional parts: config absent, empty, without or
\* with model extension; sections absent, empty or SparseSections; filters absent
\* or empty
SparseLayouts ==
    {JObj([id |-> JNum(0)] @@ c @@ s @@ f) :
        c \in Optional("config", {JStr(""),
                                  JText(JObj([bookmarks |-> JArr(<<>>)])),
                                  ConfigOf({<<"b", "a">>})}),
        s \in Optional("sections", {JArr(<<>>), JArr(SparseSections)}),
        f \in Optional("filters", {JStr("")})}

\* the record of measure name whose expression references the names of targets
MeasureRecord(name, targets) ==
    JObj([name |-> JStr(name), expression |-> JStr(ExpressionOf(targets))])

\* layouts that define M[a] twice, in one entity or in two entities named M: the
\* first definition references the names of first, the last those of last
DuplicateLayouts ==
    {JObj([id |-> JNum(0),
           config |-> JText(JObj([modelExtensions |-> JArr(<<JObj([
               name |-> JStr("extension"),
               entities |-> JArr(
                   IF split
                   THEN <<JObj([name |-> JStr("M"),
                                measures |-> JArr(<<MeasureRecord("a", first),
                                                    MeasureRecord("b", {})>>)]),
                          JObj([name |-> JStr("M"),
                                measures |-> JArr(<<MeasureRecord("c", {}),
                                                    MeasureRecord("a", last)>>)])>>
                   ELSE <<JObj([name |-> JStr("M"),
                                measures |-> JArr(<<MeasureRecord("a", first),
                                                    MeasureRecord("b", {}),
                                                    MeasureRecord("c", {}),
                                                    MeasureRecord("a", last)>>)])>>)])>>)])),
           sections |-> JArr(<<SectionOf(1, uses), SectionOf(2, uses)>>)]) :
        split \in BOOLEAN,
        first \in {{"b"}},
        last \in {{"c"}, {}},
        uses \in {{}, {<<1, "a">>}}}

LayoutInputs ==
    {LayoutOf(edges, uses) :
        edges \in SubsetsUpTo(Range(MeasureNames) \X Range(ReferenceNames), MaxEdges),
        uses \in SubsetsUpTo({1, 2} \X Range(MeasureNames), MaxUses)}
    \cup {JObj([id |-> JNum(0), config |-> JText(JObj([bookmarks |-> JArr(<<>>)]))]),
          JObj([id |-> JNum(0), sections |-> JArr(<<SectionOf(1, {<<1, "a">>})>>)])}
    \cup TwinLayouts
    \cup ProjectionLayouts

Init ==
    /\ layout_data \in LayoutInputs
    /\ pc = "load_pages"
    /\ pages = <<>>
    /\ measures = EmptyDict
    /\ measure_order = <<>>
    /\ cursor = 0
    /\ pending = {}
    /\ stack = <<>>
    /\ rec_calls = 0
    /\ exc = "none"
    /\ DaxIdle
    /\ ExtIdle
    /\ PageIdle
    /\ BatchIdle
    /\ ClientIdle

Next ==
    \/ LoadPages
    \/ LoadMeasures
    \/ ResolveMeasureDependencies
    \/ ResolveUsageField
    \/ ResolveUsageNextPage
    \/ PropagateRoot
    \/ PropagateVisit
    \/ PropagateReturn
    \/ ClassifyMeasure

Spec == Init /\ [][Next]_vars

----------------------------------------------------------------------------
(* Two Reports under construction at a time *)

\* the Report whose construction step runs next
ThisReport ==
    ReportState(layout_data, pc, pages, measures, measure_order, cursor, pending, stack,
                rec_calls, exc)

\* the mapping every Report would share if measures were an attribute of the class
MeasuresOfClass(report) == measures

\* self.measures, an attribute of the instance set in __init__
MeasuresOf(report) == report.measures

\* the caller leaves one construction where it stands and goes on with the
\* other: every field and loop position belongs to its own Report object, and
\* neither Report, Page, Visual nor Measure has a class or module attribute
SwitchReport ==
    /\ running \in {1, 2}
    /\ running' = 3 - running
    /\ other_report' = ThisReport
    /\ layout_data' = other_report.layout_data
    /\ pc' = other_report.pc
    /\ pages' = other_report.pages
    /\ measures' = MeasuresOf(other_report)
    /\ measure_order' = other_report.measure_order
    /\ cursor' = other_report.cursor
    /\ pending' = other_report.pending
    /\ stack' = other_report.stack
    /\ rec_calls' = other_report.rec_calls
    /\ exc' = other_report.exc
    /\ UNCHANGED <<dax_vars, ext_vars, page_vars, batch_vars, export_pc,
                   all_measures_data, all_pages_data, repeat_vars,
                   analyze_vars, gather_vars>>

\* layouts that declare the same full names M[a], M[b], M[c] with different
\* references and different uses, and a layout without measures
PairLayouts ==
    {LayoutOf({<<"a", "b">>, <<"b", "c">>}, {<<1, "a">>}),
     LayoutOf({<<"a", "b">>, <<"c", "a">>, <<"c", "z">>}, {<<1, "b">>, <<2, "b">>}),
     LayoutOf({<<"b", "a">>}, {}),
     JObj([id |-> JNum(0), sections |-> JArr(<<SectionOf(1, {<<1, "a">>})>>)])}

PairInit ==
    /\ layout_data \in PairLayouts
    /\ pc = "load_pages"
    /\ pages = <<>>
    /\ measures = EmptyDict
    /\ measure_order = <<>>
    /\ cursor = 0
    /\ pending = {}
    /\ stack = <<>>
    /\ rec_calls = 0
    /\ exc = "none"
    /\ \E layout \in PairLayouts : other_report = NewReport(layout, "load_pages")
    /\ running = 1
    /\ previous_fields = {}
    /\ repeats = 0
    /\ analyze_pc = "idle"
    /\ report_i = 0
    /\ descriptions = EmptyDict
    /\ GatherIdle
    /\ export_pc = "idle"
    /\ all_measures_data = <<>>
    /\ all_pages_data = <<>>
    /\ DaxIdle
    /\ ExtIdle
    /\ PageIdle
    /\ BatchIdle

PairNext ==
    \/ SwitchReport
    \/ Next

PairSpec == PairInit /\ [][PairNext]_vars

\* Report.__init__ on the layouts that lack optional keys, on those that
\* define a measure twice and on those of PairLayouts
VariantInit ==
    /\ layout_data \in SparseLayouts \cup DuplicateLayouts \cup PairLayouts
    /\ pc = "load_pages"
    /\ pages = <<>>
    /\ measures = EmptyDict
    /\ measure_order = <<>>
    /\ cursor = 0
    /\ pending = {}
    /\ stack = <<>>
    /\ rec_calls = 0
    /\ exc = "none"
    /\ DaxIdle
    /\ ExtIdle
    /\ PageIdle
    /\ BatchIdle
    /\ ClientIdle

VariantSpec == VariantInit /\ [][Next]_vars

----------------------------------------------------------------------------
(* Report.from_unzipped_report and the loops over the report folders *)

\* the exceptions the try statement of the running loop handles:
\* parse_reports catches two, the loop of the __main__ script has no try
Catches(d) == IF d = "parse_reports" THEN {"FileNotFoundError", "ValueError"} ELSE {}

\* what opening and decoding the Layout file of a folder ends in
ReadOutcomeDecodeUncaught(folder) ==
    CASE folder.layout = "undecodable" -> "UnicodeDecodeError"
      [] folder.layout = "invalid_json" -> "ValueError"
      [] OTHER -> "none"

\* lines 74-78: json.JSONDecodeError and UnicodeDecodeError become ValueError
ReadOutcome(folder) ==
    CASE folder.layout = "undecodable" -> "ValueError"
      [] folder.layout = "invalid_json" -> "ValueError"
      [] OTHER -> "none"

\* an exception has left from_unzipped_report
Raising ==
    \/ batch_pc = "raised"
    \/ batch_pc = "construct" /\ pc \in {"raised", "recursion_error"}

\* the loop is exhausted: parse_reports returns all_reps, the script goes on
BatchReturn ==
    /\ batch_pc = "iterate"
    /\ folder_i > Len(report_folders)
    /\ batch_pc' = "returned"
    /\ UNCHANGED <<driver, report_folders, folder_i, layout_read, all_reps, report_vars,
                   dax_vars, ext_vars, page_vars,
                   client_vars>>

\* an entry that is no directory is passed over
BatchSkipFile ==
    /\ batch_pc = "iterate"
    /\ folder_i <= Len(report_folders)
    /\ ~report_folders[folder_i].is_dir
    /\ folder_i' = folder_i + 1
    /\ UNCHANGED <<driver, report_folders, batch_pc, layout_read, all_reps, report_vars,
                   dax_vars, ext_vars, page_vars,
                   client_vars>>

\* Report.from_unzipped_report(report_folder) is called
BatchCallFactory ==
    /\ batch_pc = "iterate"
    /\ folder_i <= Len(report_folders)
    /\ report_folders[folder_i].is_dir
    /\ batch_pc' = "from_unzipped_report"
    /\ layout_read' = FALSE
    /\ UNCHANGED <<driver, report_folders, folder_i, all_reps, report_vars,
                   dax_vars, ext_vars, page_vars,
                   client_vars>>

\* lines 71-72: a missing Layout file raises FileNotFoundError
FactoryCheckLayout ==
    /\ batch_pc = "from_unzipped_report"
    /\ IF report_folders[folder_i].layout = "missing"
       THEN batch_pc' = "raised" /\ exc' = "FileNotFoundError"
       ELSE batch_pc' = "read_layout" /\ UNCHANGED exc
    /\ UNCHANGED <<driver, report_folders, folder_i, layout_read, all_reps,
                   layout_data, pc, pages, measures, measure_order, cursor, pending,
                   stack, rec_calls, dax_vars, ext_vars, page_vars,
                   client_vars>>

\* lines 74-80: the file is opened and decoded; Report.__init__ starts on the
\* decoded document
FactoryReadLayout ==
    /\ batch_pc = "read_layout"
    /\ layout_read' = TRUE
    /\ IF ReadOutcome(report_folders[folder_i]) # "none"
       THEN /\ batch_pc' = "raised"
            /\ exc' = ReadOutcome(report_folders[folder_i])
            /\ UNCHANGED <<layout_data, pc, pages, measures, measure_order, cursor,
                           pending, stack, rec_calls>>
       ELSE /\ batch_pc' = "construct"
            /\ layout_data' = report_folders[folder_i].data
            /\ pc' = "load_pages"
            /\ pages' = <<>>
            /\ measures' = EmptyDict
            /\ measure_order' = <<>>
            /\ cursor' = 0
            /\ pending' = {}
            /\ stack' = <<>>
            /\ rec_calls' = 0
            /\ UNCHANGED exc
    /\ UNCHANGED <<driver, report_folders, folder_i, all_reps, dax_vars, ext_vars, page_vars,
                   client_vars>>

\* Report.__init__ has completed: from_unzipped_report returns the Report and the
\* loop appends it
FactoryReturn ==
    /\ batch_pc = "construct"
    /\ pc = "done"
    /\ all_reps' = Append(all_reps, [name |-> report_folders[folder_i].name,
                                     pages |-> pages,
                                     measures |-> measures,
                                     measure_order |-> measure_order])
    /\ folder_i' = folder_i + 1
    /\ batch_pc' = "iterate"
    /\ UNCHANGED <<driver, report_folders, layout_read, report_vars,
                   dax_vars, ext_vars, page_vars,
                   client_vars>>

\* the except clause of parse_reports handles the exception: the next folder
BatchExcept ==
    /\ Raising
    /\ exc \in Catches(driver)
    /\ exc' = "none"
    /\ folder_i' = folder_i + 1
    /\ batch_pc' = "iterate"
    /\ UNCHANGED <<driver, report_folders, layout_read, all_reps,
                   layout_data, pc, pages, measures, measure_order, cursor, pending,
                   stack, rec_calls, dax_vars, ext_vars, page_vars,
                   client_vars>>

\* no except clause handles the exception: it leaves the loop and the driver
BatchCrash ==
    /\ Raising
    /\ exc \notin Catches(driver)
    /\ batch_pc' = "crashed"
    /\ UNCHANGED <<driver, report_folders, folder_i, layout_read, all_reps, report_vars,
                   dax_vars, ext_vars, page_vars,
                   client_vars>>

----------------------------------------------------------------------------
(* Inputs of the loops over the report folders *)

FolderNames == <<"r1", "r2", "r3", "r4">>

\* a layout whose second visual container selects an entry without queryName
MalformedPageLayout ==
    JObj([id |-> JNum(0),
          config |-> ConfigOf({}),
          sections |-> JArr(<<JObj([
              name |-> JStr("ReportSection"),
              displayName |-> JStr("Page 1"),
              visualContainers |-> JArr(<<JObj("dataTransforms" :> JText(JObj([
                  queryMetadata |-> JNull,
                  selects |-> JArr(<<JObj([displayName |-> JStr("Revenue")])>>)])))>>)])>>)])

\* layouts whose model extension lacks a key _load_measures subscripts
MalformedMeasureLayouts ==
    {JObj([id |-> JNum(0),
           config |-> JText(JObj([modelExtensions |-> JArr(<<JObj([
               name |-> JStr("extension"),
               entities |-> JArr(<<JObj([
                   name |-> JStr("M"),
                   measures |-> JArr(<<JObj([name |-> JStr("a"), expression |-> JStr("1")]),
                                       JObj([name |-> JStr("b")])>>)])>>)])>>)]))]),
     JObj([id |-> JNum(0),
           config |-> JText(JObj([modelExtensions |->
                                     JArr(<<JObj([name |-> JStr("extension")])>>)]))])}

\* layouts Report.__init__ completes on
WellFormedLayouts ==
    {LayoutOf({<<"a", "b">>}, {<<1, "a">>}),
     JObj([id |-> JNum(0), config |-> JText(JObj([bookmarks |-> JArr(<<>>)]))])}

\* what an entry of the directory can be, up to its name
FolderKinds ==
    {[is_dir |-> FALSE, layout |-> "missing", data |-> JNull]}
    \cup {[is_dir |-> TRUE, layout |-> l, data |-> JNull] :
             l \in {"missing", "undecodable", "invalid_json"}}
    \cup {[is_dir |-> TRUE, layout |-> "document", data |-> d] :
             d \in WellFormedLayouts \cup MalformedMeasureLayouts \cup {MalformedPageLayout}}

\* the directories of up to MaxFolders entries
FolderLists ==
    {[i \in 1..Len(kinds) |->
         [name |-> FolderNames[i], is_dir |-> kinds[i].is_dir,
          layout |-> kinds[i].layout, data |-> kinds[i].data]] :
        kinds \in SeqsUpTo(FolderKinds, MaxFolders)}

BatchInit ==
    /\ driver \in {"parse_reports", "__main__"}
    /\ report_folders \in FolderLists
    /\ batch_pc = "iterate"
    /\ folder_i = 1
    /\ layout_read = FALSE
    /\ all_reps = <<>>
    /\ ReportIdle
    /\ DaxIdle
    /\ ExtIdle
    /\ PageIdle
    /\ ClientIdle

BatchNext ==
    \/ BatchReturn
    \/ BatchSkipFile
    \/ BatchCallFactory
    \/ FactoryCheckLayout
    \/ FactoryReadLayout
    \/ FactoryReturn
    \/ BatchExcept
    \/ BatchCrash
    \/ Next

BatchSpec == BatchInit /\ [][BatchNext]_vars

----------------------------------------------------------------------------
(* export_measure_report and export_page_report *)

\* the printable ASCII characters, but for the double quote, the backslash and
\* the grave accent, in code point order
CodePoints ==
    " !#$%&'()*+,-./0123456789:;<=>?@ABCDEFGHIJKLMNOPQRSTUVWXYZ[]^_abcdefghijklmnopqrstuvwxyz{|}~"

\* the rank of ord(c) among the code points
Ord(c) == CHOOSE i \in 1..Len(CodePoints) : Char(CodePoints, i) = c

\* s < t of two str: the first differing character decides, and a proper prefix
\* is smaller
RECURSIVE StrLess(_, _)
StrLess(s, t) ==
    IF t = "" THEN FALSE
    ELSE IF s = "" THEN TRUE
    ELSE IF Char(s, 1) = Char(t, 1)
    THEN StrLess(SubSeq(s, 2, Len(s)), SubSeq(t, 2, Len(t)))
    ELSE Ord(Char(s, 1)) < Ord(Char(t, 1))

\* sorted with the sort left out: the list as the iteration produced it
unsorted(items) == items

\* sorted(items) for a list of str: a stable sort into ascending order
RECURSIVE sorted(_)
sorted(items) ==
    IF items = <<>>
    THEN <<>>
    ELSE LET rest == sorted(Tail(items))
         IN  SelectSeq(rest, LAMBDA y : StrLess(y, Head(items)))
             \o <<Head(items)>>
             \o SelectSeq(rest, LAMBDA y : ~StrLess(y, Head(items)))

\* sep.join(items)
RECURSIVE join(_, _)
join(sep, items) ==
    IF items = <<>> THEN ""
    ELSE IF Len(items) = 1 THEN items[1]
    ELSE items[1] \o sep \o join(sep, Tail(items))

\* the orders in which iterating the set S can yield its elements
IterationOrders(S) ==
    {f \in [1..Cardinality(S) -> S] : \A i, j \in 1..Cardinality(S) : f[i] = f[j] => i = j}

\* the (report, measure) pairs the loops of export_measure_report visit, in order
RECURSIVE MeasureRows(_)
MeasureRows(reports) ==
    IF reports = <<>>
    THEN <<>>
    ELSE [i \in 1..Len(Head(reports).measure_order) |->
             [report |-> Head(reports),
              measure |-> Head(reports).measures[Head(reports).measure_order[i]]]]
         \o MeasureRows(Tail(reports))

\* the (report, page) pairs the loops of export_page_report visit, in order
RECURSIVE PageRows(_)
PageRows(reports) ==
    IF reports = <<>>
    THEN <<>>
    ELSE [i \in 1..Len(Head(reports).pages) |->
             [report |-> Head(reports), page |-> Head(reports).pages[i]]]
         \o PageRows(Tail(reports))

\* measure_data; raw, by and in_pages are the orders in which the three sets are
\* iterated
measure_data(report, measure, raw, by, in_pages) ==
    ("Report" :> report.name)
    @@ ("Table" :> measure.entity_name)
    @@ ("Measure Name" :> measure.name)
    @@ ("Usage State" :> measure.usage_state)
    @@ ("Expression" :> measure.expression)
    @@ ("Referenced Measures (Raw)" :> join(", ", sorted(raw)))
    @@ ("Referenced By" :>
           join(", ", sorted([i \in 1..Len(by) |-> full_name(report.measures[by[i]])])))
    @@ ("Used In Pages" :>
           join(", ", sorted([i \in 1..Len(in_pages) |-> report.pages[in_pages[i]].name])))
    @@ ("Author" :> measure.author)
    @@ ("Description" :> measure.description)
    @@ ("Last Change" :> measure.last_change)

\* page_data; used and fields are the orders in which the two sets are iterated
\* (Is Visible and Number of Visuals are not among the page attributes kept here)
page_data(report, page, used, fields) ==
    ("Report" :> report.name)
    @@ ("Page Name" :> page.name)
    @@ ("Used Measures" :>
           join(", ", sorted([i \in 1..Len(used) |-> full_name(report.measures[used[i]])])))
    @@ ("All Used Fields (Raw)" :> join(", ", sorted(fields)))

\* the driver has parsed at least one report and calls export_measure_report
ExportStart ==
    /\ batch_pc = "returned"
    /\ all_reps # <<>>
    /\ export_pc = "idle"
    /\ export_pc' = "export_measure_report"
    /\ UNCHANGED <<all_measures_data, all_pages_data, dax_vars, ext_vars, page_vars,
                   report_vars, batch_vars,
                   pair_vars, repeat_vars,
                   analyze_vars, gather_vars>>

\* one iteration of the inner loop of export_measure_report
ExportMeasureRow ==
    /\ export_pc = "export_measure_report"
    /\ Len(all_measures_data) < Len(MeasureRows(all_reps))
    /\ LET row == MeasureRows(all_reps)[Len(all_measures_data) + 1]
       IN  \E raw \in IterationOrders(row.measure.referenced_measures),
              by \in IterationOrders(row.measure.referenced_by_measures),
              in_pages \in IterationOrders(row.measure.used_in_pages) :
               all_measures_data' =
                   Append(all_measures_data,
                          measure_data(row.report, row.measure, raw, by, in_pages))
    /\ UNCHANGED <<export_pc, all_pages_data, dax_vars, ext_vars, page_vars, report_vars,
                   batch_vars, pair_vars, repeat_vars,
                   analyze_vars, gather_vars>>

\* the loops of export_measure_report are over; the driver calls export_page_report
ExportMeasureReportReturn ==
    /\ export_pc = "export_measure_report"
    /\ Len(all_measures_data) = Len(MeasureRows(all_reps))
    /\ export_pc' = "export_page_report"
    /\ UNCHANGED <<all_measures_data, all_pages_data, dax_vars, ext_vars, page_vars,
                   report_vars, batch_vars,
                   pair_vars, repeat_vars,
                   analyze_vars, gather_vars>>

\* one iteration of the inner loop of export_page_report
ExportPageRow ==
    /\ export_pc = "export_page_report"
    /\ Len(all_pages_data) < Len(PageRows(all_reps))
    /\ LET row == PageRows(all_reps)[Len(all_pages_data) + 1]
       IN  \E used \in IterationOrders(row.page.used_measures),
              fields \in IterationOrders(row.page.used_fields) :
               all_pages_data' =
                   Append(all_pages_data, page_data(row.report, row.page, used, fields))
    /\ UNCHANGED <<export_pc, all_measures_data, dax_vars, ext_vars, page_vars,
                   report_vars, batch_vars,
                   pair_vars, repeat_vars,
                   analyze_vars, gather_vars>>

\* the loops of export_page_report are over
ExportPageReportReturn ==
    /\ export_pc = "export_page_report"
    /\ Len(all_pages_data) = Len(PageRows(all_reps))
    /\ export_pc' = "exported"
    /\ UNCHANGED <<all_measures_data, all_pages_data, dax_vars, ext_vars, page_vars,
                   report_vars, batch_vars,
                   pair_vars, repeat_vars,
                   analyze_vars, gather_vars>>

\* layouts whose sets hold several elements: M[a] references M[c] and M[z], is
\* referenced by M[b] and M[c] and is used on both pages; page 1 uses M[a] and M[b]
ExportLayouts ==
    {LayoutOf({<<"b", "a">>, <<"c", "a">>, <<"a", "c">>, <<"a", "z">>},
              {<<1, "a">>, <<2, "a">>, <<1, "b">>}),
     ProjectionLayoutOf("Fact Sales", "Total (Net)", "Sales[Total] + 1",
                        "Sum(Fact Sales.Total (Net))", 2),
     JObj([id |-> JNum(0), config |-> JText(JObj([bookmarks |-> JArr(<<>>)]))])}
    \cup TwinLayouts

\* the directories of one or two entries that are exported
ExportFolderLists ==
    LET kinds == {[is_dir |-> FALSE, layout |-> "missing", data |-> JNull],
                  [is_dir |-> TRUE, layout |-> "missing", data |-> JNull]}
                 \cup {[is_dir |-> TRUE, layout |-> "document", data |-> d] :
                          d \in ExportLayouts}
    IN  {[i \in 1..Len(ks) |->
             [name |-> FolderNames[i], is_dir |-> ks[i].is_dir,
              layout |-> ks[i].layout, data |-> ks[i].data]] :
            ks \in SeqsUpTo(kinds, 2) \ {<<>>}}

ExportInit ==
    /\ driver \in {"parse_reports", "__main__"}
    /\ report_folders \in ExportFolderLists
    /\ batch_pc = "iterate"
    /\ folder_i = 1
    /\ layout_read = FALSE
    /\ all_reps = <<>>
    /\ ReportIdle
    /\ DaxIdle
    /\ ExtIdle
    /\ PageIdle
    /\ ClientIdle

ExportNext ==
    \/ ExportStart
    \/ ExportMeasureRow
    \/ ExportMeasureReportReturn
    \/ ExportPageRow
    \/ ExportPageReportReturn
    \/ BatchNext

ExportSpec == ExportInit /\ [][ExportNext]_vars

----------------------------------------------------------------------------
(* analyze_measures_from_reports *)

\* not m.description
LacksDescription(m) == m.description \in {PyNone, ""}

\* the full names of measures_for_this_report
measures_for_this_report(report) ==
    {k \in DOMAIN report.measures : LacksDescription(report.measures[k])}

\* the update loop without its test "measure_name in report.measures": a name
\* that is no key gets a Measure of its own
DescribedOrAdded(ms, descs) ==
    [k \in DOMAIN ms \cup DOMAIN descs |->
        IF k \in DOMAIN ms
        THEN (IF k \in DOMAIN descs THEN [ms[k] EXCEPT !.description = descs[k]] ELSE ms[k])
        ELSE [Measure(k, "Unknown", "") EXCEPT !.description = descs[k]]]

\* the update loop over descriptions.items() (lines 42-44)
Described(ms, descs) ==
    [k \in DOMAIN ms |->
        IF k \in DOMAIN descs THEN [ms[k] EXCEPT !.description = descs[k]] ELSE ms[k]]

\* names and texts a response of the model can carry: M[q] and X[y] are
\* measures of no report, and a text may be empty
ReturnedNames == {"M[a]", "M[c]", "M[q]", "Fact Sales[Total (Net)]", "X[y]"}

ReturnedTexts == {"Sum of the revenue", ""}

\* what process_all_measures can return: a dict from names to texts
ReturnedDescriptions ==
    UNION {[names -> ReturnedTexts] : names \in SubsetsUpTo(ReturnedNames, MaxDescriptions)}

\* main calls analyze_measures_from_reports on the parsed reports (--analyze)
AnalyzeStart ==
    /\ driver = "parse_reports"
    /\ batch_pc = "returned"
    /\ analyze_pc = "idle"
    /\ analyze_pc' = "loop"
    /\ report_i' = 1
    /\ UNCHANGED <<descriptions, dax_vars, ext_vars, page_vars, report_vars, batch_vars,
                   export_pc, all_measures_data, all_pages_data, pair_vars, repeat_vars, gather_vars>>

\* a report none of whose measures lacks a description: continue
AnalyzeSkipReport ==
    /\ analyze_pc = "loop"
    /\ report_i <= Len(all_reps)
    /\ measures_for_this_report(all_reps[report_i]) = {}
    /\ report_i' = report_i + 1
    /\ UNCHANGED <<analyze_pc, descriptions, dax_vars, ext_vars, page_vars, report_vars,
                   batch_vars, export_pc, all_measures_data, all_pages_data, pair_vars,
                   repeat_vars, gather_vars>>

\* await model.process_all_measures(...) returns a dict
AnalyzeProcessAllMeasures ==
    /\ analyze_pc = "loop"
    /\ report_i <= Len(all_reps)
    /\ measures_for_this_report(all_reps[report_i]) # {}
    /\ descriptions' \in ReturnedDescriptions
    /\ analyze_pc' = "update"
    /\ UNCHANGED <<report_i, dax_vars, ext_vars, page_vars, report_vars, batch_vars,
                   export_pc, all_measures_data, all_pages_data, pair_vars, repeat_vars, gather_vars>>

\* await model.process_all_measures(...) raises: the analysis ends there
AnalyzeRaise ==
    /\ analyze_pc = "loop"
    /\ report_i <= Len(all_reps)
    /\ measures_for_this_report(all_reps[report_i]) # {}
    /\ analyze_pc' = "raised"
    /\ UNCHANGED <<report_i, descriptions, dax_vars, ext_vars, page_vars, report_vars,
                   batch_vars, export_pc, all_measures_data, all_pages_data, pair_vars,
                   repeat_vars, gather_vars>>

\* the descriptions are written to the Measure objects of the report
AnalyzeUpdate ==
    /\ analyze_pc = "update"
    /\ all_reps' = [all_reps EXCEPT ![report_i].measures =
                        Described(all_reps[report_i].measures, descriptions)]
    /\ analyze_pc' = "loop"
    /\ report_i' = report_i + 1
    /\ UNCHANGED <<descriptions, driver, report_folders, batch_pc, folder_i, layout_read,
                   dax_vars, ext_vars, page_vars, report_vars,
                   export_pc, all_measures_data, all_pages_data, pair_vars, repeat_vars, gather_vars>>

\* the loop over reports is over
AnalyzeReturn ==
    /\ analyze_pc = "loop"
    /\ report_i > Len(all_reps)
    /\ analyze_pc' = "returned"
    /\ UNCHANGED <<report_i, descriptions, dax_vars, ext_vars, page_vars, report_vars,
                   batch_vars, export_pc, all_measures_data, all_pages_data, pair_vars,
                   repeat_vars, gather_vars>>

AnalyzeNext ==
    \/ AnalyzeStart
    \/ AnalyzeSkipReport
    \/ AnalyzeProcessAllMeasures
    \/ AnalyzeRaise
    \/ AnalyzeUpdate
    \/ AnalyzeReturn
    \/ BatchNext

AnalyzeSpec == ExportInit /\ [][AnalyzeNext]_vars

----------------------------------------------------------------------------
(* VertexModel.process_measures_batch and VertexModel.process_all_measures *)

\* the code fences a response can open and close with: three backquotes
\* followed by json, and three backquotes
FenceJson == "<fence>json"

Fence == "<fence>"

\* response.content: what precedes the body, the body and what follows it. The
\* body is the text of a JSON value or a text that is no JSON
Content(prefix, body, suffix) == [prefix |-> prefix, body |-> body, suffix |-> suffix]

NotJson == [t |-> "prose"]

\* lines 80-90: an opening fence and a closing fence are cut off, and nothing else
cleaned_content(content) ==
    [prefix |-> IF content.prefix \in {FenceJson, Fence} THEN "" ELSE content.prefix,
     body |-> content.body,
     suffix |-> IF content.suffix = Fence THEN "" ELSE content.suffix]

\* json.loads raises JSONDecodeError on cleaned
Undecodable(cleaned) ==
    cleaned.prefix # "" \/ cleaned.suffix # "" \/ cleaned.body = NotJson

\* what process_measures_batch returns for a response (lines 79-96)
process_measures_batch(content) ==
    LET cleaned == cleaned_content(content)
    IN  IF Undecodable(cleaned) THEN JObj(EmptyDict) ELSE json_loads(cleaned.body)

\* [measures[i:i+batch_size] for i in range(0, len(measures), batch_size)]
Batches(measure_seq, size) ==
    LET count == (Len(measure_seq) + size - 1) \div size
    IN  [b \in 1..count |->
            SubSeq(measure_seq, (b - 1) * size + 1,
                   IF b * size < Len(measure_seq) THEN b * size ELSE Len(measure_seq))]

\* the returned values in the order the calls completed
gatherAsCompleted(outcomes, order) == [k \in 1..Len(order) |-> outcomes[order[k]]]

\* asyncio.gather: the returned values in the order of the awaitables
gather(outcomes, order) == [i \in 1..Len(outcomes) |-> outcomes[i]]

\* dict.update raises for result: it is neither a dict nor a list of pairs
UpdateRaises(result) == ~IsDict(result)

\* merged_results after merged_results.update(result)
Updated(merged, result) ==
    [k \in DOMAIN merged \cup DOMAIN result.v |->
        IF k \in DOMAIN result.v THEN result.v[k] ELSE merged[k]]

\* the names and texts a response can carry
GatherNames == {"M[a]", "M[b]", "M[c]"}

GatherTexts == {JStr("first"), JStr("second")}

\* the JSON objects a response can hold
ResponseObjects ==
    {JObj(f) : f \in UNION {[names -> GatherTexts] :
                               names \in SubsetsUpTo({"M[a]", "M[b]"}, MaxKeys)}}

\* what a call of the model can answer: a JSON object, a JSON array, a text
\* that is no JSON, and an object inside fences or after a sentence
Responses ==
    {Content("", JText(x), "") : x \in ResponseObjects \cup {JArr(<<JNum(1)>>)}}
    \cup {Content("", NotJson, "")}
    \cup {Content(prefix, JText(JObj("M[a]" :> JStr("second"))), suffix) :
            prefix \in {FenceJson, Fence}, suffix \in {"", Fence}}
    \cup {Content("Here is the JSON:", JText(JObj("M[a]" :> JStr("second"))), "")}

NoContent == [t |-> "pending"]

GatherInit ==
    /\ measure_list \in {ms \in SeqsUpTo(GatherNames, MaxMeasures) :
                            \A i, j \in 1..Len(ms) : ms[i] = ms[j] => i = j}
    /\ batch_size \in 1..MaxBatchSize
    /\ gather_pc = "call"
    /\ batches = <<>>
    /\ contents = <<>>
    /\ completion = <<>>
    /\ results = <<>>
    /\ merged_results = EmptyDict
    /\ result_i = 0
    /\ export_pc = "idle"
    /\ all_measures_data = <<>>
    /\ all_pages_data = <<>>
    /\ other_report = NewReport(JNull, "idle")
    /\ running = 0
    /\ previous_fields = {}
    /\ repeats = 0
    /\ analyze_pc = "idle"
    /\ report_i = 0
    /\ descriptions = EmptyDict
    /\ DaxIdle
    /\ ExtIdle
    /\ PageIdle
    /\ ReportIdle
    /\ BatchIdle

\* line 110, and the calls of process_measures_batch are started (line 111)
ProcessAllMeasuresCall ==
    /\ gather_pc = "call"
    /\ batches' = Batches(measure_list, batch_size)
    /\ contents' = [b \in 1..Len(batches') |-> NoContent]
    /\ gather_pc' = "gather"
    /\ UNCHANGED <<measure_list, batch_size, completion, results, merged_results, result_i,
                   dax_vars, ext_vars, page_vars, report_vars, batch_vars, export_pc,
                   all_measures_data, all_pages_data, pair_vars, repeat_vars, analyze_vars>>

\* the model answers the call of one of the batches that still wait (line 78)
BatchResponds ==
    /\ gather_pc = "gather"
    /\ \E b \in 1..Len(batches) :
          /\ contents[b] = NoContent
          /\ \E content \in Responses : contents' = [contents EXCEPT ![b] = content]
          /\ completion' = Append(completion, b)
    /\ UNCHANGED <<gather_pc, measure_list, batch_size, batches, results, merged_results,
                   result_i, dax_vars, ext_vars, page_vars, report_vars, batch_vars,
                   export_pc, all_measures_data, all_pages_data, pair_vars, repeat_vars,
                   analyze_vars>>

\* the call of the model raises for one of the batches: gather passes the
\* exception on and process_all_measures ends with it
BatchRaises ==
    /\ gather_pc = "gather"
    /\ \E b \in 1..Len(batches) : contents[b] = NoContent
    /\ gather_pc' = "raised"
    /\ UNCHANGED <<measure_list, batch_size, batches, contents, completion, results,
                   merged_results, result_i, dax_vars, ext_vars, page_vars, report_vars,
                   batch_vars, export_pc, all_measures_data, all_pages_data, pair_vars,
                   repeat_vars, analyze_vars>>

\* every call has returned: await asyncio.gather(...) gives results (line 111)
GatherReturn ==
    /\ gather_pc = "gather"
    /\ \A b \in 1..Len(batches) : contents[b] # NoContent
    /\ results' = gather([b \in 1..Len(batches) |-> process_measures_batch(contents[b])],
                         completion)
    /\ merged_results' = EmptyDict
    /\ result_i' = 1
    /\ gather_pc' = "merge"
    /\ UNCHANGED <<measure_list, batch_size, batches, contents, completion,
                   dax_vars, ext_vars, page_vars, report_vars, batch_vars, export_pc,
                   all_measures_data, all_pages_data, pair_vars, repeat_vars, analyze_vars>>

\* one iteration of the loop over results (lines 114-115)
MergeResult ==
    /\ gather_pc = "merge"
    /\ result_i <= Len(results)
    /\ IF UpdateRaises(results[result_i])
       THEN gather_pc' = "raised" /\ UNCHANGED <<merged_results, result_i>>
       ELSE /\ merged_results' = Updated(merged_results, results[result_i])
            /\ result_i' = result_i + 1
            /\ UNCHANGED gather_pc
    /\ UNCHANGED <<measure_list, batch_size, batches, contents, completion, results,
                   dax_vars, ext_vars, page_vars, report_vars, batch_vars, export_pc,
                   all_measures_data, all_pages_data, pair_vars, repeat_vars, analyze_vars>>

\* return merged_results (line 117)
ProcessAllMeasuresReturn ==
    /\ gather_pc = "merge"
    /\ result_i > Len(results)
    /\ gather_pc' = "returned"
    /\ UNCHANGED <<measure_list, batch_size, batches, contents, completion, results,
                   merged_results, result_i, dax_vars, ext_vars, page_vars, report_vars,
                   batch_vars, export_pc, all_measures_data, all_pages_data, pair_vars,
                   repeat_vars, analyze_vars>>

GatherNext ==
    \/ ProcessAllMeasuresCall
    \/ BatchResponds
    \/ BatchRaises
    \/ GatherReturn
    \/ MergeResult
    \/ ProcessAllMeasuresReturn

GatherSpec == GatherInit /\ [][GatherNext]_vars

----------------------------------------------------------------------------
(* Inputs of the normalizer *)

DaxPieces == {"Sum", "Divide", "Fn", "(", ")", ",", ".", "A", " "}

RECURSIVE PieceStrings(_)
PieceStrings(n) ==
    IF n = 0 THEN {""}
    ELSE LET shorter == PieceStrings(n - 1)
         IN  shorter \cup {s \o p : s \in shorter, p \in DaxPieces}

DaxFields == {"Sales.Revenue", "Orders.ID", "A.B.C", "x"}

\* an argument of a recursive wrapper: a field, bare or inside one wrapper
DaxArgs ==
    DaxFields
    \cup {w \o "(" \o f \o ")" : w \in wrapper_functions \cup {"CustomFn"}, f \in DaxFields}

DaxExamples ==
    DaxArgs
    \cup {w \o "(" \o f : w \in wrapper_functions, f \in DaxFields}
    \cup {"CustomFn(" \o w \o "(" \o f \o "))" : w \in wrapper_functions, f \in DaxFields}
    \cup {r \o "(" \o a \o ")" : r \in rec_wrapper_functions, a \in DaxArgs}
    \cup {r \o "(" \o a \o sep \o b \o ")" :
            r \in rec_wrapper_functions, sep \in {",", ", "},
            a \in DaxArgs, b \in {"Orders.ID", "Count(Orders.ID)"}}
    \cup {r \o "(" \o q \o ")" :
            r \in rec_wrapper_functions,
            q \in {"Divide(Sum(Sales.Revenue), Count(Orders.ID))", "ScopedEval(A.B.C)",
                   "ScopedEval(Divide(x))", "x, Divide(Sum(x), ScopedEval(x, A.B.C))",
                   "ScopedEval(x),Sum(A.B.C,x)"}}

DaxQueries == PieceStrings(MaxPieces) \cup DaxExamples

DaxInit ==
    /\ query \in DaxQueries
    /\ dax_pc = "call"
    /\ raw_fields = {}
    /\ ExtIdle
    /\ PageIdle
    /\ ReportIdle
    /\ BatchIdle
    /\ ClientIdle

StripDax ==
    /\ dax_pc = "call"
    /\ raw_fields' = _strip_dax_functions(query)
    /\ dax_pc' = "returned"
    /\ UNCHANGED <<query, ext_vars, page_vars, report_vars, batch_vars,
                   client_vars>>

DaxNext == StripDax

DaxSpec == DaxInit /\ [][DaxNext]_vars

----------------------------------------------------------------------------
(* Properties of the normalizer *)

\* positions of the last character of every `identifier(` token
TokenEnds(s) ==
    {i \in 1..(Len(s) - 1) : IsWordChar(Char(s, i)) /\ Char(s, i + 1) = "("}

HasToken(s) == TokenEnds(s) # {}

\* the identifier of the first `identifier(` token
FirstTokenName(s) ==
    LET e == Min(TokenEnds(s))
        j == CHOOSE b \in 1..e :
                /\ \A k \in b..e : IsWordChar(Char(s, k))
                /\ (b = 1 \/ ~IsWordChar(Char(s, b - 1)))
    IN  SubSeq(s, j, e)

SimpleWrapperNames ==
    {"Avg", "Count", "CountNonNull", "Max", "Median", "Min", "StandardDeviation", "Sum"}

RecursiveWrapperNames == {"Divide", "ScopedEval"}

\* r is the part of s strictly between positions a and b
IsStrictlyBetween(r, s, a, b) ==
    /\ Len(r) = (IF b > a THEN b - a - 1 ELSE 0)
    /\ \A k \in 1..Len(r) : Char(r, k) = Char(s, a + k)

\* C6: a recursive wrapper (Divide, ScopedEval) normalizes to the union of the
\* normalizations of its comma-separated arguments; the documented example
\* Divide(Sum(Sales.Revenue), Count(Orders.ID)) gives {Sales.Revenue, Orders.ID}.
C6_RecursiveWrapperUnion ==
    dax_pc = "returned" =>
        /\ query = "Divide(Sum(Sales.Revenue), Count(Orders.ID))"
              => raw_fields = {"Sales.Revenue", "Orders.ID"}
        /\ \A r \in RecursiveWrapperNames, a \in DaxArgs :
              /\ query = r \o "(" \o a \o ")"
                    => raw_fields = _strip_dax_functions(a)
              /\ \A b \in DaxArgs :
                    query = r \o "(" \o a \o "," \o b \o ")"
                       => raw_fields = _strip_dax_functions(a) \cup _strip_dax_functions(b)

\* C7: when the first `identifier(` token is a simple wrapper the result is the
\* single string strictly between the first "(" and the last ")" of the query,
\* and the query itself when it holds no ")".
C7_SimpleWrapperStrips ==
    (dax_pc = "returned" /\ HasToken(query)
        /\ FirstTokenName(query) \in SimpleWrapperNames) =>
        IF Positions(query, ")") = {}
        THEN raw_fields = {query}
        ELSE \E r \in raw_fields :
                /\ raw_fields = {r}
                /\ IsStrictlyBetween(r, query, Min(Positions(query, "(")),
                                     Max(Positions(query, ")")))

C7_Witness ==
    /\ dax_pc = "returned"
    /\ query = "Sum(Sales.Revenue)"
    /\ raw_fields = {"Sales.Revenue"}

\* C8: a query with no `identifier(` token, or whose first such token is neither a
\* recursive nor a simple wrapper, is returned unchanged as a singleton, also when
\* a known wrapper follows later in the string.
C8_UnknownOrBareUnchanged ==
    (dax_pc = "returned"
        /\ (~HasToken(query)
            \/ FirstTokenName(query) \notin SimpleWrapperNames \cup RecursiveWrapperNames))
        => raw_fields = {query}

C8_Witness ==
    /\ dax_pc = "returned"
    /\ query = "CustomFn(Sum(Sales.Revenue))"
    /\ raw_fields = {query}

----------------------------------------------------------------------------
(* Properties of the extractors and of Page construction *)

\* the Name of every entry of a Select list, "" for an entry without one
NamesOrEmpty(entries) ==
    {IF "Name" \in DOMAIN entries[i].v THEN entries[i].v["Name"].v ELSE "" :
        i \in 1..Len(entries)}

\* the queryName of every entry of a selects list that has one
QueryNamesPresent(entries) ==
    {entries[i].v["queryName"].v :
        i \in {j \in 1..Len(entries) : "queryName" \in DOMAIN entries[j].v}}

\* C9: the query-metadata extractor returns every entry's Name, "" for a missing
\* Name; the selects extractor returns every entry's queryName and skips an entry
\* without queryName, which adds no element to the result.
C9_MissingNameAsymmetry ==
    ext_pc = "returned" =>
        /\ ext_fn = "_queryMetadata_fields"
              => found_fields = NamesOrEmpty(data_object.v["Select"].v)
        /\ ext_fn = "_selects_fields"
              => found_fields = QueryNamesPresent(data_object.v)

\* the raw used-field set of the page under construction
RawUsedFields ==
    UNION {page_visuals[i].used_fields : i \in 1..Len(page_visuals)}
    \cup _recursive_find_fields(page_filters)

\* Entity[Property] for an entry Entity.Property, split at its first "."
Bracketed(f) ==
    LET p == Min(Positions(f, "."))
    IN  SubSeq(f, 1, p - 1) \o "[" \o SubSeq(f, p + 1, Len(f)) \o "]"

\* C10: reformatting never raises, whatever the extractors collected: every entry
\* with a "." becomes Entity[Property], split at the first "." only, and every
\* entry without a "." is dropped with a warning.
C10_ReformatNeverRaises ==
    /\ page_pc # "raised"
    /\ page_pc = "constructed" =>
          /\ page_used_fields =
                {Bracketed(f) : f \in {g \in RawUsedFields : Positions(g, ".") # {}}}
          /\ page_log = {g \in RawUsedFields : Positions(g, ".") = {}}

----------------------------------------------------------------------------
(* Properties of Report construction *)

Keys == DOMAIN measures

StateOf(k) == measures[k].usage_state

Used(k) == StateOf(k) \in {DIRECTLY_USED, INDIRECTLY_USED}

\* x references y, and both are measures of the report
ResolvedEdge(x, y) ==
    x \in Keys /\ y \in Keys /\ y \in measures[x].referenced_measures

\* the measures reachable from R along resolved edges, R included
RECURSIVE ReachableOrIn(_)
ReachableOrIn(R) ==
    LET more == R \cup {y \in Keys : \E x \in R : ResolvedEdge(x, y)}
    IN  IF more = R THEN R ELSE ReachableOrIn(more)

\* the measures reachable from R along one or more resolved edges
Reachable(R) == ReachableOrIn({y \in Keys : \E x \in R : ResolvedEdge(x, y)})

\* some page's reformatted used_fields holds the key k
UsedByAPage(k) == \E i \in 1..Len(pages) : k \in pages[i].used_fields

\* C1: after construction a DANGLING measure has a non-empty
\* referenced_by_measures, none of whose members is DIRECTLY_USED or
\* INDIRECTLY_USED.
C1_DanglingOnlyReferencedByUnused ==
    pc = "done" =>
        \A k \in Keys :
            StateOf(k) = DANGLING =>
                /\ measures[k].referenced_by_measures # {}
                /\ \A x \in measures[k].referenced_by_measures : ~Used(x)

\* a DANGLING measure that references itself and is referenced by another
\* measure, in a report with an unresolved reference
C1_Witness ==
    /\ pc = "done"
    /\ \E k \in Keys :
          /\ StateOf(k) = DANGLING
          /\ k \in measures[k].referenced_by_measures
          /\ \E x \in measures[k].referenced_by_measures : x # k
    /\ \E x \in Keys : \E n \in measures[x].referenced_measures : n \notin Keys

\* C2: after construction a measure is INDIRECTLY_USED exactly when no page uses
\* it and it is reachable, along one or more resolved references, from a
\* DIRECTLY_USED measure.
C2_IndirectIffReachable ==
    pc = "done" =>
        \A k \in Keys :
            StateOf(k) = INDIRECTLY_USED
                <=> /\ ~UsedByAPage(k)
                    /\ k \in Reachable({d \in Keys : StateOf(d) = DIRECTLY_USED})

\* C direct -> D -> E, E not referenced by C: D and E are both INDIRECTLY_USED
C2_Witness ==
    /\ pc = "done"
    /\ \E c \in Keys, d \in Keys, e \in Keys :
          /\ c # d /\ d # e /\ c # e
          /\ StateOf(c) = DIRECTLY_USED
          /\ ResolvedEdge(c, d) /\ ResolvedEdge(d, e) /\ ~ResolvedEdge(c, e)
          /\ StateOf(d) = INDIRECTLY_USED
          /\ StateOf(e) = INDIRECTLY_USED

\* C3: once the pages are linked, every measure in a page's used_measures is
\* DIRECTLY_USED, all through propagation and classification and at the end.
C3_PageUsedStaysDirect ==
    pc \in {"propagate", "classify", "done"} =>
        \A i \in 1..Len(pages) :
            \A k \in pages[i].used_measures : StateOf(k) = DIRECTLY_USED

\* a page-used measure that a directly used and an indirectly used measure reference
C3_Witness ==
    /\ pc = "done"
    /\ \E i \in 1..Len(pages) : \E k \in pages[i].used_measures :
          /\ StateOf(k) = DIRECTLY_USED
          /\ \E x \in Keys \ {k} : ResolvedEdge(x, k) /\ StateOf(x) = DIRECTLY_USED
          /\ \E y \in Keys \ {k} : ResolvedEdge(y, k) /\ StateOf(y) = INDIRECTLY_USED

\* one step changes the usage state of k only in an allowed way
AllowedChange(k) ==
    LET before == measures[k].usage_state
        after == measures'[k].usage_state
    IN  before # after =>
           /\ before = UNREFERENCED
           /\ after = DIRECTLY_USED => pc = "resolve_usage_dependencies"
           /\ after = INDIRECTLY_USED => pc = "propagate"
           /\ after = DANGLING => pc = "classify" /\ stack = <<>>

\* C4: over the whole construction UNREFERENCED is the only state a measure
\* leaves; INDIRECTLY_USED is assigned only during propagation and DANGLING only
\* in the classification pass that follows it, each to a measure that is
\* UNREFERENCED at that moment.
C4_MonotonicTransitions ==
    [][\A k \in Keys \cap DOMAIN measures' : AllowedChange(k)]_vars

\* a finished report in which all three transitions happened
C4_Witness ==
    /\ pc = "done"
    /\ \E k \in Keys : StateOf(k) = DIRECTLY_USED
    /\ \E k \in Keys : StateOf(k) = INDIRECTLY_USED
    /\ \E k \in Keys : StateOf(k) = DANGLING

\* a step of the propagation phase
PropagateStep == PropagateRoot \/ PropagateVisit \/ PropagateReturn

\* the most a new call adds to the work left: itself and its references
FrameCost ==
    1 + Max({0} \cup {Cardinality(measures[k].referenced_measures) : k \in Keys})

RECURSIVE StackWork(_)
StackWork(frames) ==
    IF frames = <<>>
    THEN 0
    ELSE 1 + Cardinality(frames[1].pending) + StackWork(Tail(frames))

\* a natural number bounding the propagation steps still to come: the measures
\* that can still start a call (as a root of the first loop or by being marked),
\* each weighed as a whole call, and the iterations and returns of the open calls
PropagationWork ==
    (Cardinality({k \in Keys : StateOf(k) = UNREFERENCED})
        + (Len(measure_order) + 1 - cursor)) * (FrameCost + 1)
    + StackWork(stack)

\* C5: propagation terminates on every graph, cycles reachable from a directly
\* used measure included: while it runs a step is always possible, every step
\* strictly decreases a natural number, no call nests to the recursion limit,
\* and there are never more recursive calls than measures.
C5_PropagationTerminates ==
    /\ [](/\ pc # "recursion_error"
          /\ rec_calls <= Cardinality(Keys)
          /\ pc = "propagate" => PropagationWork >= 0 /\ ENABLED PropagateStep)
    /\ [][pc = "propagate" /\ pc' = "propagate"
             => PropagationWork' < PropagationWork]_vars

\* propagation through a self-reference and a cycle, both reached from a
\* directly used measure, has finished
C5_Witness ==
    /\ pc = "done"
    /\ rec_calls > 0
    /\ \E c \in Keys, d \in Keys :
          /\ c # d
          /\ StateOf(c) = DIRECTLY_USED
          /\ ResolvedEdge(c, d) /\ ResolvedEdge(d, c) /\ ResolvedEdge(d, d)

----------------------------------------------------------------------------
(* Properties of the shape rules of _recursive_find_fields *)

\* _recursive_find_fields has returned for an object
ExtractedObject ==
    /\ ext_pc = "returned"
    /\ ext_fn = "_recursive_find_fields"
    /\ data_object.t = "obj"

Has(k) == k \in DOMAIN data_object.v

\* a non-null queryMetadata containing Select
HasSelectMetadata ==
    /\ Has("queryMetadata")
    /\ data_object.v["queryMetadata"] # JNull
    /\ "Select" \in DOMAIN data_object.v["queryMetadata"].v

\* a null queryMetadata together with a selects key
HasNullMetadataAndSelects ==
    /\ Has("queryMetadata")
    /\ data_object.v["queryMetadata"] = JNull
    /\ Has("selects")

\* none of the four special shapes
IsGenericObject ==
    /\ ~Has("projections")
    /\ ~Has("expression")
    /\ ~HasSelectMetadata
    /\ ~HasNullMetadataAndSelects

\* the extraction of every value of the object, united
ValuesFields ==
    UNION {_recursive_find_fields(data_object.v[k]) : k \in DOMAIN data_object.v}

\* Entity.Property when the object has Property and Expression and both
\* Expression.SourceRef.Entity and Property are present and non-empty
ExpectedLeaf ==
    IF /\ Has("Property")
       /\ Has("Expression")
       /\ "SourceRef" \in DOMAIN data_object.v["Expression"].v
       /\ "Entity" \in DOMAIN data_object.v["Expression"].v["SourceRef"].v
       /\ data_object.v["Expression"].v["SourceRef"].v["Entity"].v # ""
       /\ data_object.v["Property"].v # ""
    THEN {data_object.v["Expression"].v["SourceRef"].v["Entity"].v
             \o "." \o data_object.v["Property"].v}
    ELSE {}

\* C11: the shape rules apply in priority order, the first match wins and returns:
\* projections, then expression, then a non-null queryMetadata with Select, then
\* a null queryMetadata with selects; an object with queryMetadata that satisfies
\* neither of the last two takes the generic rule.
C11_ShapeRulePriority ==
    ExtractedObject =>
        /\ Has("projections")
              => found_fields = _projections_fields(data_object.v["projections"])
        /\ ~Has("projections") /\ Has("expression")
              => found_fields = _recursive_find_fields(data_object.v["expression"])
        /\ ~Has("projections") /\ ~Has("expression") /\ HasSelectMetadata
              => found_fields =
                    NamesOrEmpty(data_object.v["queryMetadata"].v["Select"].v)
        /\ ~Has("projections") /\ ~Has("expression") /\ HasNullMetadataAndSelects
              => found_fields = _selects_fields(data_object.v["selects"])
        /\ Has("queryMetadata") /\ IsGenericObject
              => found_fields = ExpectedLeaf \cup ValuesFields

\* an object with projections, expression, queryMetadata, selects and a further
\* key yields the projections' field only
C11_Witness ==
    /\ ExtractedObject
    /\ Has("projections") /\ Has("expression") /\ HasSelectMetadata
    /\ Has("selects") /\ Has("filter")
    /\ found_fields = {"Sales.Revenue"}
    /\ _recursive_find_fields(data_object.v["expression"]) = {"Orders.ID"}

\* C12: for an object of none of the four shapes the result is the leaf
\* Entity.Property, when the leaf pattern matches with both parts non-empty,
\* united with the extraction of every value; for an array it is the union over
\* the elements; for a scalar it is empty.
C12_GenericRule ==
    ext_pc = "returned" /\ ext_fn = "_recursive_find_fields" =>
        /\ data_object.t = "obj" /\ IsGenericObject
              => found_fields = ExpectedLeaf \cup ValuesFields
        /\ data_object.t = "arr"
              => found_fields =
                    UNION {_recursive_find_fields(data_object.v[i]) :
                              i \in 1..Len(data_object.v)}
        /\ data_object.t \in {"str", "num", "null"} => found_fields = {}

\* a matching leaf whose further key holds another leaf: both fields are found
C12_Witness ==
    /\ ExtractedObject
    /\ IsGenericObject
    /\ ExpectedLeaf = {"Sales.Revenue"}
    /\ Has("Child")
    /\ found_fields = {"Sales.Revenue", "Orders.ID"}

----------------------------------------------------------------------------
(* Properties of the measure graph and of the page links *)

\* no page uses any measure of the report
NoMeasureUsed == \A k \in Keys : ~UsedByAPage(k)

\* some measure of the mapping references the full name k
IsReferenced(k) == \E x \in Keys : k \in measures[x].referenced_measures

\* C13: a measure that ends construction DANGLING has an incoming edge from a
\* measure other than itself, and that measure is unused; also when its own
\* expression references its own full name.
C13_DanglingHasOtherReferencer ==
    pc = "done" =>
        \A k \in Keys :
            StateOf(k) = DANGLING =>
                \E x \in measures[k].referenced_by_measures \ {k} : ~Used(x)

EdgesResolved ==
    pc \in {"resolve_usage_dependencies", "propagate", "classify", "done"}

\* C15: once edges are resolved, X is in M.referenced_by_measures exactly when X
\* is a measure of the mapping one of whose referenced names is M's full name; a
\* referenced name that is no key creates no edge, raises nothing and leaves
\* every usage state as it was.
C15_EdgesExactlyResolved ==
    /\ pc # "raised"
    /\ EdgesResolved =>
          \A m \in Keys :
              /\ measures[m].referenced_by_measures \subseteq Keys
              /\ \A x \in Keys :
                    x \in measures[m].referenced_by_measures
                        <=> m \in measures[x].referenced_measures
    /\ pc = "resolve_usage_dependencies"
          /\ (\A i \in 1..Len(pages) : pages[i].used_measures = {})
          => \A k \in Keys : StateOf(k) = UNREFERENCED

\* a finished report with a resolved edge and a reference to a name that is no key
C15_Witness ==
    /\ pc = "done"
    /\ \E x \in Keys, m \in Keys :
          /\ x # m
          /\ x \in measures[m].referenced_by_measures
          /\ \E n \in measures[x].referenced_measures : n \notin Keys

\* C16: after construction M is in P.used_measures exactly when P is in
\* M.used_in_pages, and exactly when M's full name is in P's reformatted
\* used_fields and a key of the mapping; a measure is DIRECTLY_USED exactly when
\* its used_in_pages is not empty.
C16_PageLinksExact ==
    pc = "done" =>
        /\ \A i \in 1..Len(pages) :
              /\ pages[i].used_measures = pages[i].used_fields \cap Keys
              /\ \A k \in Keys :
                    k \in pages[i].used_measures <=> i \in measures[k].used_in_pages
        /\ \A k \in Keys :
              /\ measures[k].used_in_pages \subseteq 1..Len(pages)
              /\ StateOf(k) = DIRECTLY_USED <=> measures[k].used_in_pages # {}

\* a measure used on two pages, one of which also uses a field that is no measure,
\* beside a measure no page uses
C16_Witness ==
    /\ pc = "done"
    /\ \E k \in Keys : Cardinality(measures[k].used_in_pages) = 2
    /\ \E i \in 1..Len(pages) :
          /\ pages[i].used_measures # {}
          /\ pages[i].used_fields \ Keys # {}
    /\ \E k \in Keys : measures[k].used_in_pages = {}

----------------------------------------------------------------------------
(* Properties of from_unzipped_report and of the loops over the report folders *)

\* the folders whose Report can be constructed: directories whose Layout file
\* decodes to a well-formed document
Constructible ==
    SelectSeq(report_folders,
              LAMBDA f : f.is_dir /\ f.layout = "document" /\ f.data \in WellFormedLayouts)

\* C18: a failure while one report is constructed (missing layout, undecodable or
\* malformed document, malformed nested content found while pages or measures are
\* loaded) aborts that report only: the loop over the folders does not crash, and
\* the list it ends with holds exactly the reports whose construction succeeded.
C18_BatchSurvivesFailures ==
    /\ batch_pc # "crashed"
    /\ batch_pc = "returned" =>
          /\ Len(all_reps) = Len(Constructible)
          /\ \A k \in 1..Len(all_reps) : all_reps[k].name = Constructible[k].name

\* from_unzipped_report is running on, or has just raised for, the current folder
InFactory == batch_pc \in {"from_unzipped_report", "read_layout", "construct", "raised"}

\* C19: from_unzipped_report raises FileNotFoundError for a missing Layout file
\* before it reads anything, raises ValueError for a file that cannot be decoded
\* or is invalid JSON, and returns a Report only when every construction step on
\* a decoded document has completed.
C19_NoPartialReport ==
    /\ [](InFactory =>
            LET layout == report_folders[folder_i].layout
            IN  /\ batch_pc \in {"read_layout", "construct"} => layout # "missing"
                /\ batch_pc = "construct" => layout = "document"
                /\ batch_pc = "raised" /\ layout = "missing"
                      => exc = "FileNotFoundError" /\ ~layout_read
                /\ batch_pc = "raised" /\ layout \in {"undecodable", "invalid_json"}
                      => exc = "ValueError")
    /\ [][all_reps' # all_reps =>
             /\ all_reps' = Append(all_reps, [name |-> report_folders[folder_i].name,
                                               pages |-> pages,
                                               measures |-> measures,
                                               measure_order |-> measure_order])
             /\ report_folders[folder_i].layout = "document"
             /\ pc = "done"
             /\ stack = <<>>
             /\ \A k \in DOMAIN measures :
                   measures[k].usage_state = UNREFERENCED
                       => measures[k].referenced_by_measures = {}]_vars

\* parse_reports has returned one Report, with classified measures, from a
\* directory that also holds a folder without Layout file
C19_Witness ==
    /\ batch_pc = "returned"
    /\ Len(all_reps) = 1
    /\ \E k \in DOMAIN all_reps[1].measures :
          all_reps[1].measures[k].usage_state = INDIRECTLY_USED
    /\ \E i \in 1..Len(report_folders) :
          report_folders[i].is_dir /\ report_folders[i].layout = "missing"

----------------------------------------------------------------------------
(* Properties of page identity and of the path from a projection to a measure *)

\* C17: a Page's identity is the pair (ordinal, name): the used_in_pages set of a
\* measure never holds two pages with equal ordinal and name.
C17_OneEntryPerPageIdentity ==
    pc = "done" =>
        \A k \in Keys : \A i, j \in measures[k].used_in_pages :
            (pages[i].ordinal = pages[j].ordinal /\ pages[i].name = pages[j].name)
                => i = j

\* the <<entity, name>> pairs of the measures the layout declares
DeclaredMeasures ==
    LET config == LoadsOr(Get(layout_data, "config", JNull), JObj(EmptyDict))
        extensions == Get(config, "modelExtensions", JArr(<<>>)).v
        entities == IF extensions = <<>> THEN <<>> ELSE extensions[1].v["entities"].v
    IN  UNION {{<<entities[e].v["name"].v, entities[e].v["measures"].v[m].v["name"].v>> :
                   m \in 1..Len(entities[e].v["measures"].v)} :
               e \in 1..Len(entities)}

\* the queryRef strings in the singleVisual projections of the visuals of section i
ProjectedQueryRefs(i) ==
    LET section == layout_data.v["sections"].v[i]
        containers == Get(section, "visualContainers", JArr(<<>>)).v
        SingleVisual(c) ==
            Get(LoadsOr(Get(containers[c], "config", JNull), JObj(EmptyDict)),
                "singleVisual", JObj(EmptyDict))
        Refs(projections) ==
            UNION {{projections.v[d].v[j].v["queryRef"].v : j \in 1..Len(projections.v[d].v)} :
                      d \in DOMAIN projections.v}
    IN  UNION {IF HasKey(SingleVisual(c), "projections")
               THEN Refs(SingleVisual(c).v["projections"])
               ELSE {} : c \in 1..Len(containers)}

\* the queryRefs that denote the field entity.name: the bare form and the form
\* inside one simple wrapper function. A queryRef is read by the conventions of the
\* spec: a field identifier is its entity up to the first "." and its property after
\* it, so the entity holds no "."; and a text with a function-name token (a word
\* directly followed by "(") is a function applied to a field, not a bare field.
Denoting(entity, name) ==
    LET bare == entity \o "." \o name
    IN  IF Positions(entity, ".") # {}
        THEN {}
        ELSE (IF WrapperParens(bare) = {} THEN {bare} ELSE {})
             \cup {w \o "(" \o bare \o ")" : w \in wrapper_functions}

----------------------------------------------------------------------------
(* Properties of the measure objects and of the measures mapping *)

\* C21: in every state during and after construction each measure's usage_state
\* is one of the four distinct states DIRECTLY_USED, INDIRECTLY_USED, UNREFERENCED,
\* DANGLING, and the measures _load_measures has just constructed are UNREFERENCED
\* with empty referenced_by_measures and used_in_pages.
C21_UsageStateWellFormed ==
    /\ Cardinality(UsageState) = 4
    /\ \A k \in Keys : StateOf(k) \in UsageState
    /\ pc = "resolve_measure_dependencies" =>
          \A k \in Keys :
              /\ StateOf(k) = UNREFERENCED
              /\ measures[k].referenced_by_measures = {}
              /\ measures[k].used_in_pages = {}

\* _load_measures has just constructed three measures, one of them with references
C21_Witness ==
    /\ pc = "resolve_measure_dependencies"
    /\ Cardinality(Keys) = 3
    /\ \E k \in Keys : measures[k].referenced_measures # {}

----------------------------------------------------------------------------
(* Properties of the exported records *)

\* s comes before t in lexicographic (code point) order, or is t
Precedes(s, t) ==
    \/ s = t
    \/ \E i \in 1..Len(t) :
          /\ SubSeq(s, 1, i - 1) = SubSeq(t, 1, i - 1)
          /\ \/ Len(s) = i - 1
             \/ Len(s) >= i /\ Ord(Char(s, i)) < Ord(Char(t, i))

\* text lists the names names[x], x in S, one entry per element of S, in
\* lexicographic order and separated by a comma and a blank
IsSortedList(text, S, names) ==
    \E o \in IterationOrders(S) :
        /\ \A i \in 1..(Len(o) - 1) : Precedes(names[o[i]], names[o[i + 1]])
        /\ text = Concat([i \in 1..Len(o) |->
                            IF i = 1 THEN names[o[i]] ELSE ", " \o names[o[i]]])

\* C22: in every exported measure record the referenced-measure names, the full
\* names of the referencing measures and the names of the pages using the measure,
\* and in every exported page record the full names of the used measures and the
\* used-field names, are sorted lexicographically and joined with ", ", whatever
\* the order in which the sets were iterated.
C22_ExportedListsSorted ==
    /\ \A n \in 1..Len(all_measures_data) :
          LET row == MeasureRows(all_reps)[n]
              out == all_measures_data[n]
          IN  /\ IsSortedList(out["Referenced Measures (Raw)"],
                              row.measure.referenced_measures,
                              [x \in row.measure.referenced_measures |-> x])
              /\ IsSortedList(out["Referenced By"],
                              row.measure.referenced_by_measures,
                              [x \in row.measure.referenced_by_measures |->
                                  full_name(row.report.measures[x])])
              /\ IsSortedList(out["Used In Pages"],
                              row.measure.used_in_pages,
                              [x \in row.measure.used_in_pages |-> row.report.pages[x].name])
    /\ \A n \in 1..Len(all_pages_data) :
          LET row == PageRows(all_reps)[n]
              out == all_pages_data[n]
          IN  /\ IsSortedList(out["Used Measures"],
                              row.page.used_measures,
                              [x \in row.page.used_measures |->
                                  full_name(row.report.measures[x])])
              /\ IsSortedList(out["All Used Fields (Raw)"],
                              row.page.used_fields,
                              [x \in row.page.used_fields |-> x])

\* both reports are exported, with a measure record that lists two referenced
\* names, two referencing measures and two pages, and a page record that lists
\* two measures and three fields
C22_Witness ==
    /\ export_pc = "exported"
    /\ \E n \in 1..Len(all_measures_data) :
          /\ all_measures_data[n]["Referenced Measures (Raw)"] = "M[c], M[z]"
          /\ all_measures_data[n]["Referenced By"] = "M[b], M[c]"
          /\ all_measures_data[n]["Used In Pages"] = "Page 1, Page 2"
    /\ \E n \in 1..Len(all_pages_data) :
          /\ all_pages_data[n]["Used Measures"] = "M[a], M[b]"
          /\ all_pages_data[n]["All Used Fields (Raw)"] = "M[a], M[b], Sales[Revenue]"

----------------------------------------------------------------------------
(* Properties of absent optional input *)

\* the field k of the object d is absent or holds the empty text
AbsentOrEmpty(d, k) == ~HasKey(d, k) \/ d.v[k] = JStr("")

\* the visual containers of a section, none when the section has none
ContainersOf(section) == Get(section, "visualContainers", JArr(<<>>)).v

\* C23: absent optional input never aborts construction. A layout without model
\* extension yields an empty measures mapping, and then no page has used
\* measures; a layout without sections yields no pages; an absent or empty config,
\* filters or dataTransforms text of the layout, of a page or of a visual is
\* replaced by the empty structure; and a layout whose optional parts are absent
\* or empty is constructed without exception.
C23_AbsentInputNeverAborts ==
    LET config == LoadsOr(Get(layout_data, "config", JNull), JObj(EmptyDict))
        global_filters == LoadsOr(Get(layout_data, "filters", JNull), JArr(<<>>))
        sections == Get(layout_data, "sections", JArr(<<>>)).v
    IN  /\ AbsentOrEmpty(layout_data, "config") => config = JObj(EmptyDict)
        /\ AbsentOrEmpty(layout_data, "filters") => global_filters = JArr(<<>>)
        /\ layout_data \in SparseLayouts => exc = "none" /\ pc # "raised"
        /\ ~HasKey(config, "modelExtensions") /\ pc \notin {"load_pages", "load_measures"}
              => /\ measures = EmptyDict
                 /\ \A i \in 1..Len(pages) : pages[i].used_measures = {}
        /\ ~HasKey(layout_data, "sections") /\ pc # "load_pages" => pages = <<>>
        /\ \A i \in 1..Len(sections) :
              /\ AbsentOrEmpty(sections[i], "filters")
                    => LoadedFilters(sections[i]) = JArr(<<>>)
              /\ Len(LoadedVisuals(sections[i])) = Len(ContainersOf(sections[i]))
              /\ \A c \in 1..Len(ContainersOf(sections[i])) :
                    LET container == ContainersOf(sections[i])[c]
                        visual == LoadedVisuals(sections[i])[c]
                    IN  /\ AbsentOrEmpty(container, "config")
                              => /\ visual.config = JObj(EmptyDict)
                                 /\ visual.singleVisual = JObj(EmptyDict)
                        /\ AbsentOrEmpty(container, "filters")
                              => visual.filters = JArr(<<>>)
                        /\ AbsentOrEmpty(container, "dataTransforms")
                              => visual.data_transforms = JObj(EmptyDict)
                        /\ (/\ AbsentOrEmpty(container, "config")
                            /\ AbsentOrEmpty(container, "filters")
                            /\ AbsentOrEmpty(container, "dataTransforms"))
                              => visual.used_fields = {}

\* construction is complete for a layout without config and with the sparse
\* sections: three pages, no measure, and the field of page 3's visual filter
C23_Witness ==
    /\ pc = "done"
    /\ ~HasKey(layout_data, "config")
    /\ HasKey(layout_data, "sections")
    /\ Len(pages) = 3
    /\ measures = EmptyDict
    /\ pages[3].used_fields = {"M[a]"}
    /\ pages[2].used_fields = {}

----------------------------------------------------------------------------
(* Properties of the used fields of visuals and pages *)

\* C24: a Visual's used_fields is the union of the extractor's results over its
\* filters, its data-transforms and the singleVisual object of its config, and the
\* raw used-field set of a Page, before reformatting, is the union of its visuals'
\* used_fields and of the extractor's result over the page's own filters.
C24_UsedFieldsAreUnions ==
    /\ page_pc \in {"visuals_loaded", "fields_found"} =>
          /\ Len(page_visuals) = Len(Get(section_data, "visualContainers", JArr(<<>>)).v)
          /\ \A i \in 1..Len(page_visuals) :
                page_visuals[i].used_fields =
                    _recursive_find_fields(page_visuals[i].filters)
                    \cup _recursive_find_fields(page_visuals[i].data_transforms)
                    \cup _recursive_find_fields(page_visuals[i].singleVisual)
    /\ page_pc = "fields_found" =>
          page_used_fields =
              UNION {page_visuals[i].used_fields : i \in 1..Len(page_visuals)}
              \cup _recursive_find_fields(page_filters)

\* the raw used fields of a page hold a field of the visual's filters, one of its
\* data-transforms or projections, and the field of the page's own filter
C24_Witness ==
    /\ page_pc = "fields_found"
    /\ Len(page_visuals) = 1
    /\ _recursive_find_fields(page_visuals[1].filters) = {"Sales.Total"}
    /\ _recursive_find_fields(page_visuals[1].data_transforms) # {}
    /\ _recursive_find_fields(page_visuals[1].singleVisual) = {"Sales.Revenue"}
    /\ _recursive_find_fields(page_filters) = {"Orders.ID"}
    /\ Cardinality(page_used_fields) >= 4

----------------------------------------------------------------------------
(* Properties of two Reports built at a time *)

\* the measures of ms reachable from R along resolved references, R included
RECURSIVE ClosureIn(_, _)
ClosureIn(ms, R) ==
    LET more == R \cup {y \in DOMAIN ms : \E x \in R : y \in ms[x].referenced_measures}
    IN  IF more = R THEN R ELSE ClosureIn(ms, more)

\* what constructing a Report from layout alone ends with: pages and measures as
\* loaded, every resolved edge, every use by a page, and the usage state that
\* follows from them
IsBuiltAlone(report) ==
    LET page_sections == Get(report.layout_data, "sections", JArr(<<>>)).v
        loaded == LoadedMeasures(report.layout_data).measures
        keys == DOMAIN loaded
        users(k) == {i \in 1..Len(page_sections) : k \in Page(page_sections[i]).used_fields}
        direct == {k \in keys : users(k) # {}}
        reached == ClosureIn(loaded, {y \in keys : \E x \in direct :
                                         y \in loaded[x].referenced_measures})
        by(k) == {x \in keys : k \in loaded[x].referenced_measures}
        state(k) == IF k \in direct THEN DIRECTLY_USED
                    ELSE IF k \in reached THEN INDIRECTLY_USED
                    ELSE IF by(k) # {} THEN DANGLING
                    ELSE UNREFERENCED
    IN  /\ report.exc = "none"
        /\ Len(report.pages) = Len(page_sections)
        /\ \A i \in 1..Len(page_sections) :
              report.pages[i] =
                  [Page(page_sections[i]) EXCEPT
                      !.used_measures = Page(page_sections[i]).used_fields \cap keys]
        /\ DOMAIN report.measures = keys
        /\ \A k \in keys :
              report.measures[k] =
                  [loaded[k] EXCEPT !.referenced_by_measures = by(k),
                                    !.used_in_pages = users(k),
                                    !.usage_state = state(k)]

\* every member of an object set of report is a Measure or a Page of report
OwnsItsObjects(report) ==
    /\ \A k \in DOMAIN report.measures :
          /\ report.measures[k].referenced_by_measures \subseteq DOMAIN report.measures
          /\ report.measures[k].used_in_pages \subseteq 1..Len(report.pages)
    /\ \A i \in 1..Len(report.pages) :
          report.pages[i].used_measures \subseteq DOMAIN report.measures

C25_EachAsAlone ==
    /\ running \in {1, 2} =>
          /\ OwnsItsObjects(ThisReport) /\ OwnsItsObjects(other_report)
          /\ pc = "done" => IsBuiltAlone(ThisReport)
          /\ other_report.pc = "done" => IsBuiltAlone(other_report)

----------------------------------------------------------------------------
(* Properties of repeated field extraction *)

----------------------------------------------------------------------------
(* Properties of the recursion of the normalizer *)

\* the recursive calls that _strip_dax_functions(s) makes, nested ones
\* included, as pairs <<argument of the caller, argument of the call>>
RECURSIVE RecursiveCalls(_)
RecursiveCalls(s) ==
    LET fw == found_wrapper(s)
    IN  IF Len(fw) > 0 /\ fw[1] \in rec_wrapper_functions
        THEN LET subs == SubQueries(s, fw[1])
             IN  {<<s, subs[i]>> : i \in 1..Len(subs)}
                 \cup UNION {RecursiveCalls(subs[i]) : i \in 1..Len(subs)}
        ELSE {}

\* C27: every recursive call of the Divide / ScopedEval branch gets a string
\* strictly shorter than the string of its caller, so the recursion ends on
\* every query, and neither a recursive call nor the outer call returns the
\* empty set.
C27_NormalizationTerminates ==
    /\ \A call \in RecursiveCalls(query) :
          /\ Len(call[2]) < Len(call[1])
          /\ _strip_dax_functions(call[2]) # {}
    /\ dax_pc = "returned" => raw_fields # {}

\* a returned call whose recursive call made a recursive call, and one of
\* whose calls took the simple wrapper branch without a closing parenthesis
C27_Witness ==
    /\ dax_pc = "returned"
    /\ \E outer \in RecursiveCalls(query), inner \in RecursiveCalls(query) :
          /\ outer[1] = query
          /\ inner[1] = outer[2]
    /\ \E call \in RecursiveCalls(query) :
          LET fw == found_wrapper(call[2])
          IN  /\ Len(fw) > 0
              /\ fw[1] \in wrapper_functions
              /\ Positions(call[2], ")") = {}
    /\ Cardinality(raw_fields) >= 3

----------------------------------------------------------------------------
(* Properties of the keys of the measures mapping *)

\* the lists of a list of lists, one after the other
RECURSIVE Flattened(_)
Flattened(lists) ==
    IF lists = <<>> THEN <<>> ELSE Head(lists) \o Flattened(Tail(lists))

\* the measure definitions of the layout in document order, each with the
\* name of its entity
Definitions(layout) ==
    LET config == IF HasKey(layout, "config") /\ Truthy(layout.v["config"])
                  THEN json_loads(layout.v["config"]) ELSE JObj(EmptyDict)
        extensions == IF HasKey(config, "modelExtensions")
                      THEN config.v["modelExtensions"].v ELSE <<>>
        all_entities == IF extensions = <<>> THEN <<>> ELSE extensions[1].v["entities"].v
        of(i) == LET records == IF HasKey(all_entities[i], "measures")
                                THEN all_entities[i].v["measures"].v ELSE <<>>
                     entity_name == IF HasKey(all_entities[i], "name")
                                    THEN all_entities[i].v["name"].v ELSE "Unknown"
                 IN  [j \in 1..Len(records) |->
                         [entity_name |-> entity_name, record |-> records[j]]]
    IN  Flattened([i \in 1..Len(all_entities) |-> of(i)])

\* the full name that definition d declares
DeclaredName(d) == d.entity_name \o "[" \o d.record.v["name"].v \o "]"

\* C28: during and after construction every key of the measures mapping is
\* the full name of the Measure stored under it; a full name that the layout
\* defines more than once has one Measure, built from the last of its
\* definitions in document order, and the edges and usage states of the
\* constructed report are those that the last definitions give.
C28_KeyedByFullName ==
    /\ \A k \in DOMAIN measures : full_name(measures[k]) = k
    /\ pc \notin {"idle", "load_pages", "load_measures", "raised"} =>
          LET defs == Definitions(layout_data)
              last(k) == defs[Max({i \in 1..Len(defs) : DeclaredName(defs[i]) = k})]
          IN  /\ DOMAIN measures = {DeclaredName(defs[i]) : i \in 1..Len(defs)}
              /\ \A k \in DOMAIN measures :
                    /\ measures[k].expression = last(k).record.v["expression"].v
                    /\ measures[k].referenced_measures =
                          NewMeasure(last(k).entity_name, last(k).record).referenced_measures
    /\ pc = "done" => IsBuiltAlone(ThisReport)

\* M[a] is defined twice; its first definition references M[b], its last one
\* M[c]; a page uses M[a], so M[c] is INDIRECTLY_USED and M[b] UNREFERENCED
C28_Witness ==
    /\ pc = "done"
    /\ layout_data \in DuplicateLayouts
    /\ DOMAIN measures = {"M[a]", "M[b]", "M[c]"}
    /\ measures["M[a]"].referenced_measures = {"M[c]"}
    /\ measures["M[a]"].usage_state = DIRECTLY_USED
    /\ measures["M[c]"].usage_state = INDIRECTLY_USED
    /\ measures["M[c]"].referenced_by_measures = {"M[a]"}
    /\ measures["M[b]"].usage_state = UNREFERENCED
    /\ measures["M[b]"].referenced_by_measures = {}

----------------------------------------------------------------------------
(* Properties of the back-filled descriptions *)

\* report as it was, up to the descriptions of its measures
SameButDescriptions(before, after) ==
    /\ after.name = before.name
    /\ after.pages = before.pages
    /\ after.measure_order = before.measure_order
    /\ DOMAIN after.measures = DOMAIN before.measures
    /\ \A k \in DOMAIN before.measures :
          [after.measures[k] EXCEPT !.description = before.measures[k].description]
              = before.measures[k]

\* C29: a step of analyze_measures_from_reports leaves the list of reports,
\* every page, the keys of every measures mapping and every field of every
\* measure but description as they were; a description changes only for a key
\* of the mapping that the returned dict names, and becomes the returned text.
C29_BackfillChangesDescriptionsOnly ==
    [][analyze_pc # "idle" =>
          /\ Len(all_reps') = Len(all_reps)
          /\ \A i \in 1..Len(all_reps) :
                /\ SameButDescriptions(all_reps[i], all_reps'[i])
                /\ \A k \in DOMAIN all_reps[i].measures :
                      all_reps'[i].measures[k].description
                              # all_reps[i].measures[k].description
                          => /\ analyze_pc = "update"
                             /\ i = report_i
                             /\ k \in DOMAIN descriptions
                             /\ all_reps'[i].measures[k].description = descriptions[k]]_vars

\* the analysis has returned after a dict that names M[a] and the unknown M[q]:
\* M[a] carries the text and is still DIRECTLY_USED and referenced by M[b] and
\* M[c], M[q] is no key, and M[b] has no description
C29_Witness ==
    /\ analyze_pc = "returned"
    /\ DOMAIN descriptions = {"M[a]", "M[q]"}
    /\ Len(all_reps) = 2
    /\ DOMAIN all_reps[2].measures = {"M[a]", "M[b]", "M[c]"}
    /\ all_reps[2].measures["M[a]"].description = "Sum of the revenue"
    /\ all_reps[2].measures["M[a]"].usage_state = DIRECTLY_USED
    /\ all_reps[2].measures["M[a]"].referenced_by_measures = {"M[b]", "M[c]"}
    /\ all_reps[2].measures["M[b]"].description = PyNone
    /\ all_reps[1].measures # EmptyDict

----------------------------------------------------------------------------
(* Properties of the batches of process_all_measures *)

\* the response of batch b holds a JSON value once its fences are cut off
Parsable(b) ==
    /\ contents[b].prefix \in {"", FenceJson, Fence}
    /\ contents[b].suffix \in {"", Fence}
    /\ contents[b].body # NotJson

\* the mapping that batch b contributes: the object of its response, and the
\* empty mapping when the response cannot be parsed
Contribution(b) == IF Parsable(b) THEN contents[b].body.v.v ELSE EmptyDict

\* C30: the batches are consecutive pieces of the measure list of one to
\* batch_size measures each, so every measure is in exactly one batch; the
\* mapping that process_all_measures returns has the names of all
\* contributions, each with the text of the last batch, in batch order, that
\* returned it, whatever the order in which the calls completed; and a
\* response that cannot be parsed contributes nothing.
C30_BatchesMergedInOrder ==
    /\ gather_pc \notin {"idle", "call"} =>
          /\ Flattened(batches) = measure_list
          /\ \A b \in 1..Len(batches) :
                Len(batches[b]) >= 1 /\ Len(batches[b]) <= batch_size
    /\ gather_pc = "returned" =>
          /\ DOMAIN merged_results = UNION {DOMAIN Contribution(b) : b \in 1..Len(batches)}
          /\ \A k \in DOMAIN merged_results :
                LET last == Max({b \in 1..Len(batches) : k \in DOMAIN Contribution(b)})
                IN  merged_results[k] = Contribution(last)[k]

\* three batches of one measure; the call of the last batch completed first
\* and that of the first batch last; the first and the last batch both return
\* M[a], the last inside fences, and the response of the second is no JSON
C30_Witness ==
    /\ gather_pc = "returned"
    /\ Len(batches) = 3
    /\ completion = <<3, 2, 1>>
    /\ contents[1] = Content("", JText(JObj("M[a]" :> JStr("first"))), "")
    /\ contents[2] = Content("", NotJson, "")
    /\ contents[3] = Content(FenceJson, JText(JObj("M[a]" :> JStr("second"))), Fence)
    /\ merged_results = ("M[a]" :> JStr("second"))

====
